---- MODULE Spec2Model ----
(***************************************************************************)
(* CropAid server: registration, login, report submission and the report   *)
(* status workflow, over the relational tables of schema.sql.              *)
(*                                                                         *)
(* The repository holds three generations of the server: the full one      *)
(* (the JavaScript part of seed.sql), index.js and the early one           *)
(* (unnamed/part_003).  Handlers that differ between them are modelled     *)
(* per generation and carry the generation in their name or a "variant"    *)
(* argument: "server" = seed.sql, "index" = index.js, "legacy" = part_003. *)
(*                                                                         *)
(* Strings whose content the code inspects (usernames, emails, RSBSA ids,  *)
(* MySQL error messages) are sequences of one-character strings.           *)
(***************************************************************************)
EXTENDS Integers, Sequences, FiniteSets, TLC

VARIABLES
    users,           \* table users (committed rows)
    farmers,         \* table farmers (committed rows)
    farms,           \* table farms (committed rows)
    reports,         \* table reports
    notifications,   \* table notifications
    report_comments, \* table report_comments, in insertion order
    barangays,       \* table barangays
    pest_categories, \* table pest_categories
    ref_auto_increment, \* AUTO_INCREMENT counters of barangays and pest_categories
    cache,           \* the NodeCache instance: key -> stored value and expiry time
    activity_logs,   \* table activity_logs
    tokens,          \* claim sets signed by jwt.sign so far
    next_uuid,       \* number of randomUUID() user ids drawn so far, plus one
    next_farmer_id,  \* AUTO_INCREMENT counter of farmers
    next_farm_id,    \* AUTO_INCREMENT counter of farms
    next_report_id,  \* AUTO_INCREMENT counter of reports
    next_notif_id,   \* AUTO_INCREMENT counter of notifications
    clock,           \* NOW(), advanced by every status update
    pc,              \* per request slot: the await the handler is suspended at
    req,             \* per request slot: the handler's locals
    tx,              \* per request slot: rows inserted in the open transaction
    resp,            \* per request slot: the last response sent
    overlap          \* per request slot: slots whose registration ran concurrently

vars == << users, farmers, farms, reports, notifications, report_comments,
           barangays, pest_categories, ref_auto_increment, cache,
           activity_logs, tokens,
           next_uuid, next_farmer_id, next_farm_id, next_report_id, next_notif_id,
           clock, pc, req, tx, resp, overlap >>

dbVars == << users, farmers, farms >>
reportVars == << reports, notifications, report_comments, next_report_id,
                next_notif_id, clock >>
authVars == << tokens, activity_logs >>
regVars == << next_uuid, next_farmer_id, next_farm_id, tx, overlap >>
refVars == << barangays, pest_categories, ref_auto_increment, cache >>

(***************************************************************************)
(* Bounds                                                                  *)
(***************************************************************************)
\* registrations that pass validation and draw a user id
MaxUuid == 2

\* the request slots: two requests may be in flight at once
Procs == {"c1", "c2"}

(***************************************************************************)
(* Reference data and the cache                                            *)
(***************************************************************************)
\* rows of the seeded reference tables
SeedBarangays == {[id |-> 1, name |-> "San Jose"]}
SeedPestCategories == {[id |-> 1, name |-> "Army Worm", is_active |-> TRUE]}

\* a key the cache holds no entry for
NoValue == [fallback |-> FALSE, rows |-> {}]
NoEntry == [v |-> NoValue, t |-> -1]
CacheKeys == {"barangays", "pest_types"}

\* the reference tables as seeded, new NodeCache(...) empty
ReferenceSeeded ==
    /\ barangays = SeedBarangays
    /\ pest_categories = SeedPestCategories
    /\ ref_auto_increment = [barangays |-> 2, pest_categories |-> 2]
    /\ cache = [k \in CacheKeys |-> NoEntry]

(***************************************************************************)
(* Strings                                                                 *)
(***************************************************************************)
s_email == <<"e","m","a","i","l">>
s_username == <<"u","s","e","r","n","a","m","e">>
s_rsbsa_id == <<"r","s","b","s","a","_","i","d">>

u_juan == <<"j","u","a","n">>
u_emailer == <<"e","m","a","i","l","e","r">>
u_ab == <<"a","b">>
u_admin == <<"a","d","m","i","n">>

e_juan == <<"j","@","x",".","p","h">>
e_maria == <<"m","@","x",".","p","h">>
e_admin == <<"a","@","g",".","p","h">>

r_099 == <<"1","2","-","6","3","-","0","9","9">>
r_username7 == <<"u","s","e","r","n","a","m","e","7">>

\* SQL NULL in a string column
NullStr == << >>

Usernames == {u_juan, u_emailer}
Emails == {e_juan, e_maria}
RsbsaIds == {r_099, r_username7}
Passwords == {"cropaid123"}

\* String.prototype.includes
Includes(hay, needle) ==
    \E i \in 1..(Len(hay) - Len(needle) + 1) :
        SubSeq(hay, i, i + Len(needle) - 1) = needle

\* z.string().email(): a local part, an @, a domain with a dot inside it
IsEmail(s) ==
    \E i \in 2..Len(s) :
        /\ s[i] = "@"
        /\ \A k \in 1..Len(s) : s[k] = "@" => k = i
        /\ \E j \in (i + 2)..(Len(s) - 1) : s[j] = "."

\* RegisterSchema.parse succeeds
RegisterSchemaOk(data) ==
    /\ IsEmail(data.email)
    /\ Len(data.username) >= 3
    /\ Len(data.rsbsaId) >= 5

\* bcrypt.hash / bcrypt.compare
Hash(password) == << "bcrypt", password >>
Compare(password, hash) == hash = Hash(password)

(***************************************************************************)
(* The datastore: unique keys and the duplicate-key error                  *)
(***************************************************************************)
NoTx == [users |-> {}, farmers |-> {}, farms |-> {}]

\* rows other open transactions have inserted and not yet committed
PendingUsers(p) == UNION { tx[q].users : q \in Procs \ {p} }
PendingFarmers(p) == UNION { tx[q].farmers : q \in Procs \ {p} }

\* ER_DUP_ENTRY as mysql2 reports it: Duplicate entry '<value>' for key '<key>'
DupEntry(value, key) ==
    [code |-> "ER_DUP_ENTRY",
     message |-> <<"D","u","p","l","i","c","a","t","e"," ","e","n","t","r","y"," ","'">>
                 \o value
                 \o <<"'"," ","f","o","r"," ","k","e","y"," ","'">>
                 \o key \o <<"'">>]

\* any other datastore failure (connection lost, lock wait timeout, ...)
OtherError == [code |-> "ER_OTHER", message |-> << >>]

NoError == [code |-> "OK", message |-> << >>]
Wait == [code |-> "WAIT", message |-> << >>]

\* a users insert that does not see the uncommitted rows of other transactions
InsertUserOutcomeNoLock(p, row) ==
    IF \E u \in users : u.username = row.username
    THEN DupEntry(row.username, s_username)
    ELSE IF row.email # NullStr /\ \E u \in users : u.email = row.email
    THEN DupEntry(row.email, s_email)
    ELSE NoError

\* INSERT INTO users by slot p: the unique indexes are checked in the order
\* the table declares them (username, then email); a committed duplicate is
\* an error, an uncommitted one of another transaction makes the insert wait
InsertUserOutcome(p, row) ==
    IF \E u \in users : u.username = row.username
    THEN DupEntry(row.username, s_username)
    ELSE IF \E u \in PendingUsers(p) : u.username = row.username
    THEN Wait
    ELSE IF row.email # NullStr /\ \E u \in users : u.email = row.email
    THEN DupEntry(row.email, s_email)
    ELSE IF row.email # NullStr /\ \E u \in PendingUsers(p) : u.email = row.email
    THEN Wait
    ELSE NoError

\* a farmers table whose rsbsa_id column lost its UNIQUE key
InsertFarmerOutcomeNoKey(p, row) == NoError

\* INSERT INTO farmers by slot p: rsbsa_id is UNIQUE
InsertFarmerOutcome(p, row) ==
    IF \E f \in farmers : f.rsbsa_id = row.rsbsa_id
    THEN DupEntry(row.rsbsa_id, s_rsbsa_id)
    ELSE IF \E f \in PendingFarmers(p) : f.rsbsa_id = row.rsbsa_id
    THEN Wait
    ELSE NoError

(***************************************************************************)
(* POST /api/auth/register                                                 *)
(***************************************************************************)
RegPcs == {"reg_user", "reg_farmer", "reg_farm", "reg_commit"}

NoReq == [op |-> "none"]

Response(op, status, error, info) ==
    [op |-> op, status |-> status, error |-> error, info |-> info]

NoResp == Response("none", 0, "", [uid |-> 0])

\* a payload RegisterSchema rejects (username shorter than 3 characters)
ShortUsernamePayload ==
    [username |-> u_ab, email |-> e_juan, rsbsaId |-> r_099, password |-> "cropaid123"]

RegisterPayloads ==
    [username : Usernames, email : Emails, rsbsaId : RsbsaIds, password : Passwords]
    \cup {ShortUsernamePayload}

\* the catch block's choice of response for a thrown datastore error
RegisterErrorResponse(err) ==
    IF err.code = "ER_DUP_ENTRY" /\ Includes(err.message, s_email)
    THEN [status |-> 409, error |-> "Email already exists"]
    ELSE IF err.code = "ER_DUP_ENTRY" /\ Includes(err.message, s_username)
    THEN [status |-> 409, error |-> "Username already exists"]
    ELSE IF err.code = "ER_DUP_ENTRY" /\ Includes(err.message, s_rsbsa_id)
    THEN [status |-> 409, error |-> "RSBSA ID already exists"]
    ELSE [status |-> 500, error |-> "Server error"]

\* slots whose registration is in flight while slot p starts a request
Concurrent(p) == { q \in Procs \ {p} : pc[q] \in RegPcs }

OverlapOnStart(p, registering) ==
    [r \in Procs |->
        IF r = p THEN (IF registering THEN Concurrent(p) ELSE {})
        ELSE IF registering /\ pc[r] \in RegPcs THEN overlap[r] \cup {p}
        ELSE overlap[r] \ {p}]

\* a rollback that leaves the user row behind, as if the user insert had been
\* issued outside the transaction
RolledBackKeepingUser(p) ==
    [users |-> users \cup tx[p].users, farmers |-> farmers, farms |-> farms]

\* connection.rollback(): the tables after the transaction of slot p is undone
RolledBack(p) == [users |-> users, farmers |-> farmers, farms |-> farms]

\* connection.commit(): the tables after the transaction of slot p is committed
Committed(p) ==
    [users |-> users \cup tx[p].users,
     farmers |-> farmers \cup tx[p].farmers,
     farms |-> farms \cup tx[p].farms]

\* catch (err): rollback, then the response chosen from err
RegisterCatch(p, err, cause) ==
    LET r == RegisterErrorResponse(err)
        t == RolledBack(p)
    IN  /\ users' = t.users
        /\ farmers' = t.farmers
        /\ farms' = t.farms
        /\ tx' = [tx EXCEPT ![p] = NoTx]
        /\ pc' = [pc EXCEPT ![p] = "idle"]
        /\ resp' = [resp EXCEPT ![p] =
               Response("register", r.status, r.error,
                        [uid |-> req[p].userId, data |-> req[p].data, cause |-> cause,
                         stage |-> pc[p]])]
        /\ req' = [req EXCEPT ![p] = NoReq]

\* RegisterSchema.parse, bcrypt.hash, randomUUID, getConnection, beginTransaction
Register(p, data) ==
    /\ pc[p] = "idle"
    /\ IF ~RegisterSchemaOk(data)
       THEN /\ resp' = [resp EXCEPT ![p] =
                   Response("register", 400, "ZodError",
                            [uid |-> 0, data |-> data, cause |-> "validation",
                             stage |-> "parse"])]
            /\ overlap' = OverlapOnStart(p, FALSE)
            /\ UNCHANGED << pc, req, tx, next_uuid >>
       ELSE /\ next_uuid <= MaxUuid
            /\ req' = [req EXCEPT ![p] =
                   [op |-> "register", data |-> data, userId |-> next_uuid,
                    hashedPassword |-> Hash(data.password), farmerId |-> 0]]
            /\ next_uuid' = next_uuid + 1
            /\ tx' = [tx EXCEPT ![p] = NoTx]
            /\ pc' = [pc EXCEPT ![p] = "reg_user"]
            /\ overlap' = OverlapOnStart(p, TRUE)
            /\ resp' = [resp EXCEPT ![p] = NoResp]
    /\ UNCHANGED << dbVars, reportVars, refVars, authVars, next_farmer_id, next_farm_id >>

\* INSERT INTO users (id, email, username, password_hash, role) ... 'farmer'
RegisterInsertUser(p) ==
    /\ pc[p] = "reg_user"
    /\ LET row == [id |-> req[p].userId, username |-> req[p].data.username,
                   email |-> req[p].data.email,
                   password_hash |-> req[p].hashedPassword,
                   role |-> "farmer", is_active |-> TRUE]
           out == InsertUserOutcome(p, row)
       IN  \/ /\ out.code = "OK"
              /\ tx' = [tx EXCEPT ![p].users = {row}]
              /\ pc' = [pc EXCEPT ![p] = "reg_farmer"]
              /\ UNCHANGED << dbVars, req, resp >>
           \/ /\ out.code = "ER_DUP_ENTRY"
              /\ RegisterCatch(p, out, "duplicate")
           \/ /\ out.code # "WAIT"
              /\ RegisterCatch(p, OtherError, "fault")
    /\ UNCHANGED << reportVars, refVars, authVars, next_uuid, next_farmer_id, next_farm_id,
                    overlap >>

\* INSERT INTO farmers (user_id, rsbsa_id, ...); farmerId = insertId
RegisterInsertFarmer(p) ==
    /\ pc[p] = "reg_farmer"
    /\ LET row == [id |-> next_farmer_id, user_id |-> req[p].userId,
                   rsbsa_id |-> req[p].data.rsbsaId]
           out == InsertFarmerOutcome(p, row)
       IN  \/ /\ out.code = "OK"
              /\ tx' = [tx EXCEPT ![p].farmers = {row}]
              /\ req' = [req EXCEPT ![p].farmerId = next_farmer_id]
              /\ next_farmer_id' = next_farmer_id + 1
              /\ pc' = [pc EXCEPT ![p] = "reg_farm"]
              /\ UNCHANGED << dbVars, resp >>
           \/ /\ out.code = "ER_DUP_ENTRY"
              /\ RegisterCatch(p, out, "duplicate")
              /\ UNCHANGED next_farmer_id
           \/ /\ out.code # "WAIT"
              /\ RegisterCatch(p, OtherError, "fault")
              /\ UNCHANGED next_farmer_id
    /\ UNCHANGED << reportVars, refVars, authVars, next_uuid, next_farm_id, overlap >>

\* INSERT INTO farms (farmer_id, ...)
RegisterInsertFarm(p) ==
    /\ pc[p] = "reg_farm"
    /\ \/ /\ tx' = [tx EXCEPT ![p].farms =
                 {[id |-> next_farm_id, farmer_id |-> req[p].farmerId]}]
          /\ next_farm_id' = next_farm_id + 1
          /\ pc' = [pc EXCEPT ![p] = "reg_commit"]
          /\ UNCHANGED << dbVars, req, resp >>
       \/ /\ RegisterCatch(p, OtherError, "fault")
          /\ UNCHANGED next_farm_id
    /\ UNCHANGED << reportVars, refVars, authVars, next_uuid, next_farmer_id, overlap >>

\* connection.commit(); res.status(201)
RegisterCommit(p) ==
    /\ pc[p] = "reg_commit"
    /\ \/ LET t == Committed(p)
          IN  /\ users' = t.users
              /\ farmers' = t.farmers
              /\ farms' = t.farms
              /\ tx' = [tx EXCEPT ![p] = NoTx]
              /\ pc' = [pc EXCEPT ![p] = "idle"]
              /\ resp' = [resp EXCEPT ![p] =
                     Response("register", 201, "",
                              [uid |-> req[p].userId, data |-> req[p].data,
                               cause |-> "none", stage |-> "done"])]
              /\ req' = [req EXCEPT ![p] = NoReq]
       \/ RegisterCatch(p, OtherError, "fault")
    /\ UNCHANGED << reportVars, refVars, authVars, next_uuid, next_farmer_id, next_farm_id,
                    overlap >>

(***************************************************************************)
(* Initial state: the tables as seed.sql leaves them (the admin account)   *)
(***************************************************************************)
AdminId == 0

SeedAdmin ==
    [id |-> AdminId, username |-> u_admin, email |-> e_admin,
     password_hash |-> Hash("cropaid123"), role |-> "admin", is_active |-> TRUE]

Init ==
    /\ users = {SeedAdmin}
    /\ farmers = {}
    /\ farms = {}
    /\ reports = {}
    /\ notifications = {}
    /\ activity_logs = << >>
    /\ tokens = {}
    /\ next_uuid = 1
    /\ next_farmer_id = 1
    /\ next_farm_id = 1
    /\ next_report_id = 1
    /\ report_comments = << >>
    /\ ReferenceSeeded
    /\ next_notif_id = 1
    /\ clock = 1
    /\ pc = [p \in Procs |-> "idle"]
    /\ req = [p \in Procs |-> NoReq]
    /\ tx = [p \in Procs |-> NoTx]
    /\ resp = [p \in Procs |-> NoResp]
    /\ overlap = [p \in Procs |-> {}]

RegStart == \E p \in Procs, data \in RegisterPayloads : Register(p, data)
RegUser == \E p \in Procs : RegisterInsertUser(p)
RegFarmer == \E p \in Procs : RegisterInsertFarmer(p)
RegFarm == \E p \in Procs : RegisterInsertFarm(p)
RegCommit == \E p \in Procs : RegisterCommit(p)

NextReg == RegStart \/ RegUser \/ RegFarmer \/ RegFarm \/ RegCommit

SpecReg == Init /\ [][NextReg]_vars

(***************************************************************************)
(* Tokens and middleware                                                   *)
(***************************************************************************)
\* no Authorization header
NoToken == [id |-> -1, role |-> "none"]

\* jwt.sign({ id, role, name }): the claim set of a token
Claims(user) == [id |-> user.id, role |-> user.role]

\* authenticateToken: 401 without a token, 403 for a token jwt.verify rejects
\* (one this server never signed), 0 when the request passes
AuthenticateToken(tok) ==
    IF tok = NoToken THEN 401
    ELSE IF tok \notin tokens THEN 403
    ELSE 0

\* a requireAdmin that lets every verified token through
RequireAdminAnyRole(tok) == AuthenticateToken(tok)

\* a requireAdmin that looks the caller up in the users table
RequireAdminCurrentRole(tok) ==
    IF AuthenticateToken(tok) # 0 THEN AuthenticateToken(tok)
    ELSE IF \E u \in users : u.id = tok.id /\ u.role = "admin" /\ u.is_active THEN 0
    ELSE 403

\* requireAdmin, after authenticateToken
RequireAdmin(tok) ==
    IF AuthenticateToken(tok) # 0 THEN AuthenticateToken(tok)
    ELSE IF tok.role = "admin" THEN 0
    ELSE 403

\* the tokens a client can present: none, a forged one, every signed one
ForgedToken == [id |-> AdminId, role |-> "forged"]
PresentableTokens == tokens \cup {NoToken, ForgedToken}

(***************************************************************************)
(* POST /api/auth/login                                                    *)
(***************************************************************************)
u_shara == <<"s","h","a","r","a">>
e_shara == <<"s","@","g",".","c","o","m">>
r_001 == <<"1","2","-","6","3","-","0","0","1">>
u_ghost == <<"g","h","o","s","t">>

SharaId == 101

SeedShara ==
    [id |-> SharaId, username |-> u_shara, email |-> e_shara,
     password_hash |-> Hash("cropaid123"), role |-> "farmer", is_active |-> TRUE]

SeedSharaFarmer == [id |-> 1, user_id |-> SharaId, rsbsa_id |-> r_001]
SeedSharaFarm == [id |-> 1, farmer_id |-> 1]

\* activity_logs rows written
MaxLogs == 2

Variants == {"server", "index", "legacy"}
LoginIdentifiers == {u_admin, u_shara, e_shara, r_001, u_ghost}
LoginPasswords == {"cropaid123", "wrong-pass"}

\* f.rsbsa_id of the LEFT JOIN farmers f ON u.id = f.user_id
HasRsbsa(u, identifier) ==
    \E f \in farmers : f.user_id = u.id /\ f.rsbsa_id = identifier

\* the SELECT of part_003: no email, no is_active
LoginRowsLegacy(identifier) ==
    { u \in users : u.username = identifier \/ HasRsbsa(u, identifier) }

\* the SELECT of seed.sql and index.js
LoginRowsActive(identifier) ==
    { u \in users :
        /\ u.username = identifier \/ u.email = identifier \/ HasRsbsa(u, identifier)
        /\ u.is_active = TRUE }

LoginRows(variant, identifier) ==
    IF variant = "legacy" THEN LoginRowsLegacy(identifier)
    ELSE LoginRowsActive(identifier)

\* a rejection that tells an unknown identifier from a wrong password
LoginRejectionEnumerating(found) ==
    IF found THEN [status |-> 401, error |-> "Invalid credentials"]
    ELSE [status |-> 404, error |-> "User not found"]

\* if (!user || !(await bcrypt.compare(...))) return res.status(401)...
LoginRejection(found) == [status |-> 401, error |-> "Invalid credentials"]

\* logActivity: the insert is tried and a failure is swallowed
LogActivity(userId, actionType) ==
    \/ activity_logs' = Append(activity_logs, [user_id |-> userId, action_type |-> actionType])
    \/ activity_logs' = activity_logs

\* the request arrives and LoginSchema.parse runs
Login(p, variant, identifier, password) ==
    /\ pc[p] = "idle"
    /\ Len(activity_logs) < MaxLogs
    /\ pc' = [pc EXCEPT ![p] = "login"]
    /\ req' = [req EXCEPT ![p] =
           [op |-> "login", variant |-> variant, identifier |-> identifier,
            password |-> password]]
    /\ resp' = [resp EXCEPT ![p] = NoResp]
    /\ UNCHANGED << dbVars, reportVars, refVars, authVars, regVars >>

LoginReject(p, found) ==
    LET r == LoginRejection(found)
    IN  /\ resp' = [resp EXCEPT ![p] =
               Response("login", r.status, r.error,
                        [uid |-> -1, variant |-> req[p].variant,
                         cause |-> IF found THEN "bad_password" ELSE "no_user"])]
        /\ UNCHANGED authVars

LoginIssue(p, user) ==
    /\ tokens' = tokens \cup {Claims(user)}
    /\ IF req[p].variant = "server"
       THEN LogActivity(user.id, "login")
       ELSE UNCHANGED activity_logs
    /\ resp' = [resp EXCEPT ![p] =
           Response("login", 200, "",
                    [uid |-> user.id, variant |-> req[p].variant, cause |-> "none"])]

\* the SELECT, rows[0], bcrypt.compare, jwt.sign, logActivity, res.json
LoginLookup(p) ==
    /\ pc[p] = "login"
    /\ LET rows == LoginRows(req[p].variant, req[p].identifier)
       IN  \/ rows = {} /\ LoginReject(p, FALSE)
           \/ \E user \in rows :
                 IF Compare(req[p].password, user.password_hash)
                 THEN LoginIssue(p, user)
                 ELSE LoginReject(p, TRUE)
    /\ pc' = [pc EXCEPT ![p] = "idle"]
    /\ req' = [req EXCEPT ![p] = NoReq]
    /\ UNCHANGED << dbVars, reportVars, refVars, regVars >>

(***************************************************************************)
(* Admin: PATCH /api/admin/farmers/:id/status, PATCH /api/admin/users/:id  *)
(***************************************************************************)
\* :id of the farmers route: a user id (it holds a '-') or a farmer id
FarmerStatusTargets ==
    { [isUUID |-> TRUE, id |-> u.id] : u \in users }
    \cup { [isUUID |-> FALSE, id |-> f.id] : f \in farmers }

\* UPDATE users SET is_active = ? WHERE id = ?, or the join through farmers
UsersWithActive(target, isActive) ==
    { IF \/ target.isUUID /\ u.id = target.id
         \/ ~target.isUUID /\ \E f \in farmers : f.id = target.id /\ f.user_id = u.id
      THEN [u EXCEPT !.is_active = isActive]
      ELSE u : u \in users }

AdminFarmerStatus(p, tok, target, isActive) ==
    /\ pc[p] = "idle"
    /\ IF RequireAdmin(tok) # 0
       THEN /\ resp' = [resp EXCEPT ![p] =
                   Response("farmer_status", RequireAdmin(tok), "", [uid |-> tok.id])]
            /\ UNCHANGED users
       ELSE /\ users' = UsersWithActive(target, isActive)
            /\ resp' = [resp EXCEPT ![p] =
                   Response("farmer_status", 200, "Farmer status updated",
                            [uid |-> tok.id])]
    /\ UNCHANGED << farmers, farms, reportVars, refVars, authVars, regVars, pc, req >>

NoChange == "undefined"

\* bodies of PATCH /api/admin/users/:id
UserPatches ==
    [isActive : {NoChange, "true", "false"}, role : {NoChange, "admin", "farmer"},
     password : {NoChange}]

\* the three conditional UPDATE statements
UsersPatched(id, body) ==
    { IF u.id # id THEN u
      ELSE [u EXCEPT
              !.password_hash = IF body.password = NoChange THEN @ ELSE Hash(body.password),
              !.is_active = IF body.isActive = NoChange THEN @ ELSE body.isActive = "true",
              !.role = IF body.role = NoChange THEN @ ELSE body.role] : u \in users }

AdminPatchUser(p, tok, id, body) ==
    /\ pc[p] = "idle"
    /\ IF RequireAdmin(tok) # 0
       THEN /\ resp' = [resp EXCEPT ![p] =
                   Response("patch_user", RequireAdmin(tok), "", [uid |-> tok.id])]
            /\ UNCHANGED users
       ELSE /\ users' = UsersPatched(id, body)
            /\ resp' = [resp EXCEPT ![p] =
                   Response("patch_user", 200, "User updated", [uid |-> tok.id])]
    /\ UNCHANGED << farmers, farms, reportVars, refVars, authVars, regVars, pc, req >>

\* the database after schema.sql and the seed with one farmer
InitSeeded ==
    /\ users = {SeedAdmin, SeedShara}
    /\ farmers = {SeedSharaFarmer}
    /\ farms = {SeedSharaFarm}
    /\ reports = {}
    /\ notifications = {}
    /\ activity_logs = << >>
    /\ tokens = {}
    /\ next_uuid = 1
    /\ next_farmer_id = 2
    /\ next_farm_id = 2
    /\ next_report_id = 1
    /\ report_comments = << >>
    /\ ReferenceSeeded
    /\ next_notif_id = 1
    /\ clock = 1
    /\ pc = [p \in Procs |-> "idle"]
    /\ req = [p \in Procs |-> NoReq]
    /\ tx = [p \in Procs |-> NoTx]
    /\ resp = [p \in Procs |-> NoResp]
    /\ overlap = [p \in Procs |-> {}]

\* requests that do not race are served one at a time, in this slot
Serial == CHOOSE p \in Procs : TRUE

LoginStart ==
    \E v \in Variants, i \in LoginIdentifiers, w \in LoginPasswords :
        Login(Serial, v, i, w)
LoginFinish == LoginLookup(Serial)
FarmerStatus ==
    \E tok \in PresentableTokens, target \in FarmerStatusTargets, a \in BOOLEAN :
        AdminFarmerStatus(Serial, tok, target, a)
PatchUser ==
    \E tok \in PresentableTokens, u \in users, body \in UserPatches :
        AdminPatchUser(Serial, tok, u.id, body)

NextAuth == LoginStart \/ LoginFinish \/ FarmerStatus \/ PatchUser

SpecAuth == InitSeeded /\ [][NextAuth]_vars

(***************************************************************************)
(* POST /api/reports                                                       *)
(***************************************************************************)
\* report submissions that pass validation
MaxReports == 1

\* a base64 payload: its length in characters and its '=' padding; a data-URL
\* header, if any, is cut off by split(',')[1] before decoding
NoPhoto == [chars |-> 0, pad |-> 0]

\* no photo, one that decodes to exactly 10 MB, one that decodes to one byte more
Photos == { NoPhoto, [chars |-> 13981016, pad |-> 2], [chars |-> 13981016, pad |-> 1] }

\* Buffer.from(..., 'base64').length
PhotoSizeInBytes(photo) == (photo.chars \div 4) * 3 - photo.pad

PhotoLimitMB == 10
BytesPerMB == 1024 * 1024

\* a size check on whole megabytes
PhotoTooLargeRounded(photo) ==
    photo # NoPhoto /\ PhotoSizeInBytes(photo) \div BytesPerMB > PhotoLimitMB

\* if (data.photoBase64) { ... if (photoSizeInMB > 10) ... }
PhotoTooLarge(photo) ==
    photo # NoPhoto /\ PhotoSizeInBytes(photo) > PhotoLimitMB * BytesPerMB

\* z.enum of ReportSchema, as far as the reports table accepts it
ReportTypes == {"pest", "flood", "drought"}
ReportTypeInputs == {"pest", "fire"}
ReportBodies == [type : ReportTypeInputs, photoBase64 : Photos]

NullNotes == "NULL"
NullUser == -1
NullTime == 0

\* the row INSERT INTO reports creates: status takes the column default
NewReport(id, userId, data) ==
    [id |-> id, user_id |-> userId, type |-> data.type, status |-> "pending",
     admin_notes |-> NullNotes, verified_by |-> NullUser, verified_at |-> NullTime,
     photo_base64 |-> data.photoBase64]

\* SELECT id ... FROM users WHERE role = 'admin'
Admins == { u \in users : u.role = "admin" }

\* the rows of INSERT INTO notifications ... SELECT ... FROM users WHERE
\* role = 'admin': seed.sql leaves the id to AUTO_INCREMENT, index.js passes
\* one randomUUID() for every selected row
NewReportNotifications(variant, reportId, reportType) ==
    LET title == IF variant = "server" THEN "New Report"
                 ELSE "New " \o reportType \o " report"
        order == CHOOSE f \in [Admins -> 0..(Cardinality(Admins) - 1)] :
                     \A a, b \in Admins : f[a] = f[b] => a = b
    IN  { [id |-> IF variant = "server" THEN next_notif_id + order[a] ELSE next_notif_id,
           user_id |-> a.id, type |-> "new_report", title |-> title,
           reference_id |-> ToString(reportId), is_read |-> FALSE] : a \in Admins }

\* PRIMARY KEY (id) of notifications
PrimaryKeyOk(rows) ==
    \A r \in rows : \A o \in rows \cup notifications : o.id = r.id => o = r

\* the request arrives and passes authenticateToken, or is answered 401 / 403
SubmitReport(p, variant, tok, body) ==
    /\ pc[p] = "idle"
    /\ next_report_id <= MaxReports
    /\ IF AuthenticateToken(tok) # 0
       THEN /\ resp' = [resp EXCEPT ![p] =
                   Response("submit", AuthenticateToken(tok), "", [rid |-> 0])]
            /\ UNCHANGED << pc, req >>
       ELSE /\ pc' = [pc EXCEPT ![p] = "sub_handler"]
            /\ req' = [req EXCEPT ![p] =
                   [op |-> "submit", variant |-> variant, user |-> tok, data |-> body,
                    reportId |-> 0]]
            /\ resp' = [resp EXCEPT ![p] = NoResp]
    /\ UNCHANGED << dbVars, reportVars, refVars, authVars, regVars >>

\* the handler up to its first await: ReportSchema.parse, the photo check of
\* seed.sql (index.js has none), then the INSERT is sent
SubmitHandler(p) ==
    /\ pc[p] = "sub_handler"
    /\ IF req[p].data.type \notin ReportTypes
       THEN /\ resp' = [resp EXCEPT ![p] = Response("submit", 400, "ZodError", [rid |-> 0])]
            /\ pc' = [pc EXCEPT ![p] = "idle"]
            /\ req' = [req EXCEPT ![p] = NoReq]
       ELSE IF req[p].variant = "server" /\ PhotoTooLarge(req[p].data.photoBase64)
       THEN /\ resp' = [resp EXCEPT ![p] =
                   Response("submit", 400, "Photo size exceeds the 10MB limit", [rid |-> 0])]
            /\ pc' = [pc EXCEPT ![p] = "idle"]
            /\ req' = [req EXCEPT ![p] = NoReq]
       ELSE /\ pc' = [pc EXCEPT ![p] = "sub_insert"]
            /\ UNCHANGED << req, resp >>
    /\ UNCHANGED << dbVars, reportVars, refVars, authVars, regVars >>

\* FOREIGN KEY (user_id) REFERENCES users(id): the parent row exists and no
\* open transaction has deleted it (the insert would wait for that commit)
UserReferenceOk(userId) ==
    /\ \E u \in users : u.id = userId
    /\ ~\E q \in Procs : pc[q] = "df_commit" /\ req[q].userId = userId

\* INSERT INTO reports: the row is stored, or the statement fails (the
\* foreign key among the causes) and the outer catch answers 500
SubmitInsert(p) ==
    /\ pc[p] = "sub_insert"
    /\ \/ /\ UserReferenceOk(req[p].user.id)
          /\ reports' = reports \cup
                 {NewReport(next_report_id, req[p].user.id, req[p].data)}
          /\ next_report_id' = next_report_id + 1
          /\ req' = [req EXCEPT ![p].reportId = next_report_id]
          /\ pc' = [pc EXCEPT ![p] = "sub_notify"]
          /\ UNCHANGED resp
       \/ /\ resp' = [resp EXCEPT ![p] =
                 Response("submit", 500, "Failed to submit report", [rid |-> 0])]
          /\ pc' = [pc EXCEPT ![p] = "idle"]
          /\ req' = [req EXCEPT ![p] = NoReq]
          /\ UNCHANGED << reports, next_report_id >>
    /\ UNCHANGED << dbVars, notifications, report_comments, refVars, next_notif_id, clock,
                    authVars, regVars >>

\* try { INSERT INTO notifications ... SELECT ... } catch (e) {}: all the rows
\* or, when a key is duplicated or the statement fails otherwise, none; then
\* logActivity (seed.sql), the SELECT of the new row and the 201
SubmitNotify(p) ==
    /\ pc[p] = "sub_notify"
    /\ LET rows == NewReportNotifications(req[p].variant, req[p].reportId,
                                          req[p].data.type)
       IN  \E outcome \in {"sent", "duplicate", "fault"} :
             /\ outcome = "sent" => PrimaryKeyOk(rows)
             /\ outcome = "duplicate" => ~PrimaryKeyOk(rows)
             /\ IF outcome = "sent"
                THEN /\ notifications' = notifications \cup rows
                     /\ next_notif_id' = next_notif_id + Cardinality(rows)
                ELSE UNCHANGED << notifications, next_notif_id >>
             /\ resp' = [resp EXCEPT ![p] =
                    Response("submit", 201, "",
                             [rid |-> req[p].reportId, notify |-> outcome])]
    /\ IF req[p].variant = "server"
       THEN /\ LogActivity(req[p].user.id, "report_submit")
            /\ UNCHANGED tokens
       ELSE UNCHANGED authVars
    /\ pc' = [pc EXCEPT ![p] = "idle"]
    /\ req' = [req EXCEPT ![p] = NoReq]
    /\ UNCHANGED << dbVars, reports, next_report_id, report_comments, refVars, clock, regVars >>

(***************************************************************************)
(* PATCH /api/admin/reports/:id/status                                     *)
(***************************************************************************)
\* UPDATE statements of the status route (each one advances NOW())
MaxStatusUpdates == 2

\* an allow-list that lets a request without a status through
StatusAllowListOrAbsent == {"pending", "verified", "resolved", "rejected", NoChange}

\* an allow-list with a fifth status
StatusAllowListWide == {"pending", "verified", "resolved", "rejected", "archived"}

\* ['pending', 'verified', 'resolved', 'rejected']
StatusAllowList == {"pending", "verified", "resolved", "rejected"}

\* request bodies: an allow-listed status, one outside the list, none at all
StatusBodies ==
    [status : StatusAllowList \cup {"archived", NoChange},
     adminNotes : {NoChange, "checked"}]

\* :id of the route: the reports that exist and one that does not
ReportIdParams == 1..next_report_id

\* an UPDATE that leaves admin_notes alone when the request has no notes
ReportsWithStatusKeepingNotes(id, status, adminNotes, userId) ==
    { IF r.id # id THEN r
      ELSE [r EXCEPT !.status = status,
                     !.admin_notes = IF adminNotes \in {NoChange, ""} THEN @ ELSE adminNotes,
                     !.verified_by = userId,
                     !.verified_at = clock] : r \in reports }

\* UPDATE reports SET status = ?, admin_notes = ?, verified_by = ?,
\* verified_at = NOW() WHERE id = ?, with [status, adminNotes || null,
\* req.user.id, req.params.id]: absent and empty notes are stored as NULL
ReportsWithStatus(id, status, adminNotes, userId) ==
    { IF r.id # id THEN r
      ELSE [r EXCEPT !.status = status,
                     !.admin_notes = IF adminNotes \in {NoChange, ""} THEN NullNotes
                                     ELSE adminNotes,
                     !.verified_by = userId,
                     !.verified_at = clock] : r \in reports }

\* a status notification titled by the route alone
StatusNotificationUntitled(userId, status, id) ==
    [id |-> next_notif_id, user_id |-> userId, type |-> "status_change",
     title |-> "Report", reference_id |-> ToString(id), is_read |-> FALSE]

\* the row INSERT INTO notifications ... VALUES (?, 'status_change', ?, ?, ?) adds
StatusNotification(userId, status, id) ==
    [id |-> next_notif_id, user_id |-> userId, type |-> "status_change",
     title |-> "Report " \o status, reference_id |-> ToString(id), is_read |-> FALSE]

\* the request arrives and passes authenticateToken and requireAdmin, or is
\* answered 401 / 403
StatusRequest(p, tok, id, body) ==
    /\ pc[p] = "idle"
    /\ clock <= MaxStatusUpdates
    /\ IF RequireAdmin(tok) # 0
       THEN /\ resp' = [resp EXCEPT ![p] =
                   Response("status", RequireAdmin(tok), "", [rid |-> id])]
            /\ UNCHANGED << pc, req >>
       ELSE /\ pc' = [pc EXCEPT ![p] = "st_handler"]
            /\ req' = [req EXCEPT ![p] =
                   [op |-> "status", user |-> tok, id |-> id, status |-> body.status,
                    adminNotes |-> body.adminNotes, owner |-> NullUser]]
            /\ resp' = [resp EXCEPT ![p] = NoResp]
    /\ UNCHANGED << dbVars, reportVars, refVars, authVars, regVars >>

\* the handler up to its first await: the allow-list check, then the UPDATE
\* is sent
StatusHandler(p) ==
    /\ pc[p] = "st_handler"
    /\ IF req[p].status \notin StatusAllowList
       THEN /\ resp' = [resp EXCEPT ![p] =
                   Response("status", 400, "Invalid status", [rid |-> req[p].id])]
            /\ pc' = [pc EXCEPT ![p] = "idle"]
            /\ req' = [req EXCEPT ![p] = NoReq]
       ELSE /\ pc' = [pc EXCEPT ![p] = "st_update"]
            /\ UNCHANGED << req, resp >>
    /\ UNCHANGED << dbVars, reportVars, refVars, authVars, regVars >>

\* the UPDATE runs, or fails and the outer catch answers 500
StatusUpdate(p) ==
    /\ pc[p] = "st_update"
    /\ \/ /\ reports' = ReportsWithStatus(req[p].id, req[p].status, req[p].adminNotes,
                                          req[p].user.id)
          /\ clock' = clock + 1
          /\ pc' = [pc EXCEPT ![p] = "st_select"]
          /\ UNCHANGED << req, resp >>
       \/ /\ resp' = [resp EXCEPT ![p] =
                 Response("status", 500, "Server error", [rid |-> req[p].id])]
          /\ pc' = [pc EXCEPT ![p] = "idle"]
          /\ req' = [req EXCEPT ![p] = NoReq]
          /\ UNCHANGED << reports, clock >>
    /\ UNCHANGED << dbVars, notifications, next_report_id, report_comments, refVars, next_notif_id, authVars, regVars >>

\* SELECT user_id, type FROM reports WHERE id = ?: with a row the handler goes
\* on to the insert; without one, or when the SELECT fails (swallowed), it
\* answers 'Status updated'
StatusSelect(p) ==
    /\ pc[p] = "st_select"
    /\ \/ \E r \in reports :
            /\ r.id = req[p].id
            /\ req' = [req EXCEPT ![p].owner = r.user_id]
            /\ pc' = [pc EXCEPT ![p] = "st_notify"]
            /\ UNCHANGED resp
       \/ \E outcome \in {"no_report", "fault"} :
            /\ outcome = "no_report" => ~\E r \in reports : r.id = req[p].id
            /\ resp' = [resp EXCEPT ![p] =
                   Response("status", 200, "Status updated",
                            [rid |-> req[p].id, notify |-> outcome])]
            /\ pc' = [pc EXCEPT ![p] = "idle"]
            /\ req' = [req EXCEPT ![p] = NoReq]
    /\ UNCHANGED << dbVars, reportVars, refVars, authVars, regVars >>

\* a handler without the inner try / catch: a failed insert answers 500
StatusNotifyStrict(p) ==
    /\ pc[p] = "st_notify"
    /\ \E outcome \in {"sent", "fault"} :
         /\ IF outcome = "sent"
            THEN /\ notifications' = notifications \cup
                        {StatusNotification(req[p].owner, req[p].status, req[p].id)}
                 /\ next_notif_id' = next_notif_id + 1
            ELSE UNCHANGED << notifications, next_notif_id >>
         /\ resp' = [resp EXCEPT ![p] =
                IF outcome = "sent"
                THEN Response("status", 200, "Status updated",
                              [rid |-> req[p].id, notify |-> outcome])
                ELSE Response("status", 500, "Server error",
                              [rid |-> req[p].id, notify |-> outcome])]
    /\ pc' = [pc EXCEPT ![p] = "idle"]
    /\ req' = [req EXCEPT ![p] = NoReq]
    /\ UNCHANGED << dbVars, reports, next_report_id, report_comments, refVars, clock, authVars, regVars >>

\* a handler that skips the insert when the reporter already holds a
\* notification of this status for this report
StatusNotifySuppressing(p) ==
    /\ pc[p] = "st_notify"
    /\ \E outcome \in {"sent", "fault"} :
         /\ IF /\ outcome = "sent"
               /\ ~\E n \in notifications :
                      /\ n.user_id = req[p].owner
                      /\ n.title = "Report " \o req[p].status
                      /\ n.reference_id = ToString(req[p].id)
            THEN /\ notifications' = notifications \cup
                        {StatusNotification(req[p].owner, req[p].status, req[p].id)}
                 /\ next_notif_id' = next_notif_id + 1
            ELSE UNCHANGED << notifications, next_notif_id >>
         /\ resp' = [resp EXCEPT ![p] =
                Response("status", 200, "Status updated",
                         [rid |-> req[p].id, notify |-> outcome])]
    /\ pc' = [pc EXCEPT ![p] = "idle"]
    /\ req' = [req EXCEPT ![p] = NoReq]
    /\ UNCHANGED << dbVars, reports, next_report_id, report_comments, refVars, clock, authVars, regVars >>

\* the INSERT of the notification (a failure is swallowed), then res.json
StatusNotify(p) ==
    /\ pc[p] = "st_notify"
    /\ \E outcome \in {"sent", "fault"} :
         /\ IF outcome = "sent"
            THEN /\ notifications' = notifications \cup
                        {StatusNotification(req[p].owner, req[p].status, req[p].id)}
                 /\ next_notif_id' = next_notif_id + 1
            ELSE UNCHANGED << notifications, next_notif_id >>
         /\ resp' = [resp EXCEPT ![p] =
                Response("status", 200, "Status updated",
                         [rid |-> req[p].id, notify |-> outcome])]
    /\ pc' = [pc EXCEPT ![p] = "idle"]
    /\ req' = [req EXCEPT ![p] = NoReq]
    /\ UNCHANGED << dbVars, reports, next_report_id, report_comments, refVars, clock, authVars, regVars >>

(***************************************************************************)
(* Report submission, with role changes by the admin in the other slot     *)
(***************************************************************************)
\* the seeded database, the admin and the farmer logged in
InitSubmit ==
    /\ users = {SeedAdmin, SeedShara}
    /\ farmers = {SeedSharaFarmer}
    /\ farms = {SeedSharaFarm}
    /\ reports = {}
    /\ notifications = {}
    /\ activity_logs = << >>
    /\ tokens = {Claims(SeedAdmin), Claims(SeedShara)}
    /\ next_uuid = 1
    /\ next_farmer_id = 2
    /\ next_farm_id = 2
    /\ next_report_id = 1
    /\ report_comments = << >>
    /\ ReferenceSeeded
    /\ next_notif_id = 1
    /\ clock = 1
    /\ pc = [p \in Procs |-> "idle"]
    /\ req = [p \in Procs |-> NoReq]
    /\ tx = [p \in Procs |-> NoTx]
    /\ resp = [p \in Procs |-> NoResp]
    /\ overlap = [p \in Procs |-> {}]

Desk == CHOOSE p \in Procs : p # Serial

ReportArrive ==
    \E variant \in {"server", "index"}, tok \in PresentableTokens, body \in ReportBodies :
        SubmitReport(Serial, variant, tok, body)
ReportHandle == SubmitHandler(Serial)
ReportInsert == SubmitInsert(Serial)
ReportNotify == SubmitNotify(Serial)
RolePatch ==
    \E tok \in PresentableTokens, u \in users :
        \E body \in { b \in UserPatches : b.isActive = NoChange /\ b.role # NoChange } :
            AdminPatchUser(Desk, tok, u.id, body)

NextSubmit == ReportArrive \/ ReportHandle \/ ReportInsert \/ ReportNotify \/ RolePatch

SpecSubmit == InitSubmit /\ [][NextSubmit]_vars

(***************************************************************************)
(* The status route, on a database that holds one submitted report         *)
(***************************************************************************)
\* InitSubmit after the farmer's submission of a pest report to seed.sql
InitStatus ==
    /\ users = {SeedAdmin, SeedShara}
    /\ farmers = {SeedSharaFarmer}
    /\ farms = {SeedSharaFarm}
    /\ reports = {NewReport(1, SharaId, [type |-> "pest", photoBase64 |-> NoPhoto])}
    /\ notifications =
           {[id |-> 1, user_id |-> AdminId, type |-> "new_report", title |-> "New Report",
             reference_id |-> ToString(1), is_read |-> FALSE]}
    /\ activity_logs = << [user_id |-> SharaId, action_type |-> "report_submit"] >>
    /\ tokens = {Claims(SeedAdmin), Claims(SeedShara)}
    /\ next_uuid = 1
    /\ next_farmer_id = 2
    /\ next_farm_id = 2
    /\ next_report_id = 2
    /\ report_comments = << >>
    /\ ReferenceSeeded
    /\ next_notif_id = 2
    /\ clock = 1
    /\ pc = [p \in Procs |-> "idle"]
    /\ req = [p \in Procs |-> NoReq]
    /\ tx = [p \in Procs |-> NoTx]
    /\ resp = [p \in Procs |-> NoResp]
    /\ overlap = [p \in Procs |-> {}]

StatusArrive ==
    \E tok \in PresentableTokens, id \in ReportIdParams, body \in StatusBodies :
        StatusRequest(Desk, tok, id, body)
StatusHandle == StatusHandler(Desk)
StatusApply == StatusUpdate(Desk)
StatusReadBack == StatusSelect(Desk)
StatusSend == StatusNotify(Desk)

NextStatus == StatusArrive \/ StatusHandle \/ StatusApply \/ StatusReadBack \/ StatusSend

SpecStatus == InitStatus /\ [][NextStatus]_vars

(***************************************************************************)
(* Submission and the status route together, on the seeded database        *)
(***************************************************************************)
\* a valid submission by a logged-in user
FiledReport ==
    \E variant \in {"server", "index"}, tok \in tokens :
        SubmitReport(Serial, variant, tok, [type |-> "pest", photoBase64 |-> NoPhoto])

\* the admin's verdict on a report, with notes
Verdict ==
    \E id \in ReportIdParams, status \in {"verified", "resolved"} :
        StatusRequest(Desk, Claims(SeedAdmin), id,
                      [status |-> status, adminNotes |-> "checked"])

NextLifecycle ==
    \/ FiledReport \/ ReportHandle \/ ReportInsert \/ ReportNotify
    \/ Verdict \/ StatusHandle \/ StatusApply \/ StatusReadBack \/ StatusSend

SpecLifecycle == InitSubmit /\ [][NextLifecycle]_vars

(***************************************************************************)
(* PUT and DELETE /api/farmer/farm/:id                                     *)
(***************************************************************************)
u_james == <<"j","a","m","e","s">>
e_james == <<"j","@","g",".","c","o","m">>
r_002 == <<"1","2","-","6","3","-","0","0","2">>

JamesId == 102

SeedJames ==
    [id |-> JamesId, username |-> u_james, email |-> e_james,
     password_hash |-> Hash("cropaid123"), role |-> "farmer", is_active |-> TRUE]

SeedJamesFarmer == [id |-> 2, user_id |-> JamesId, rsbsa_id |-> r_002]

\* a farms row with the columns the update route is exercised on
FarmRow(id, farmerId, barangay, size, lat) ==
    [id |-> id, farmer_id |-> farmerId, location_barangay |-> barangay,
     farm_size_hectares |-> size, latitude |-> lat]

SeedFarms ==
    { FarmRow(1, 1, "San Jose", "2.5", "6.5250"),
      FarmRow(2, 2, "Poblacion", "1.8", "6.5180") }

\* const allowedFields = [...]
AllowedFields ==
    { "latitude", "longitude", "location_barangay", "location_sitio",
      "farm_size_hectares", "planting_method", "date_of_sowing",
      "date_of_transplanting", "date_of_harvest", "land_category", "soil_type",
      "topography", "irrigation_source", "tenural_status", "boundary_north",
      "boundary_south", "boundary_east", "boundary_west", "current_crop",
      "cover_type", "amount_cover", "insurance_premium", "cltip_sum_insured",
      "cltip_premium" }

\* fieldMap[key]: the four aliases, the allow-listed names themselves,
\* undefined for anything else
FieldMap(key) ==
    CASE key = "lat" -> "latitude"
      [] key = "lng" -> "longitude"
      [] key = "barangay" -> "location_barangay"
      [] key = "size" -> "farm_size_hectares"
      [] key \in AllowedFields -> key
      [] OTHER -> NoChange

\* Object.keys(req.body).forEach(...): the (column, value) pairs of the SET
\* clause, in the order of the body's keys
RECURSIVE Updates(_)
Updates(body) ==
    IF body = << >> THEN << >>
    ELSE LET dbColumn == FieldMap(Head(body).key)
         IN  IF dbColumn # NoChange /\ dbColumn \in AllowedFields
             THEN << [column |-> dbColumn, value |-> Head(body).value] >>
                      \o Updates(Tail(body))
             ELSE Updates(Tail(body))

\* UPDATE farms SET c1 = ?, c2 = ? ...: the assignments apply left to right
RECURSIVE SetColumns(_, _)
SetColumns(row, updates) ==
    IF updates = << >> THEN row
    ELSE SetColumns([row EXCEPT ![Head(updates).column] = Head(updates).value],
                    Tail(updates))

\* request bodies, as the ordered key / value pairs of the JSON object
FarmBodies ==
    { << [key |-> "farm_size_hectares", value |-> "3.2"] >>,
      << [key |-> "farm_size_hectares", value |-> "3.2"], [key |-> "farmer_id", value |-> "2"] >>,
      << [key |-> "owner", value |-> "me"] >>,
      << [key |-> "barangay", value |-> "Poblacion"], [key |-> "lat", value |-> "6.6"] >>,
      << [key |-> "size", value |-> "5"], [key |-> "farm_size_hectares", value |-> "3.2"] >> }

\* an ownership query that only looks the farm up
OwnedFarmsAnyOwner(farmId, userId) == { fm \in farms : fm.id = farmId }

\* SELECT fm.id FROM farms fm JOIN farmers f ON fm.farmer_id = f.id
\* WHERE fm.id = ? AND f.user_id = ?
OwnedFarms(farmId, userId) ==
    { fm \in farms : fm.id = farmId /\ \E f \in farmers : f.id = fm.farmer_id /\ f.user_id = userId }

\* the request arrives and passes authenticateToken, or is answered 401 / 403
FarmUpdate(p, tok, farmId, body) ==
    /\ pc[p] = "idle"
    /\ IF AuthenticateToken(tok) # 0
       THEN /\ resp' = [resp EXCEPT ![p] =
                   Response("farm_update", AuthenticateToken(tok), "", [fid |-> farmId])]
            /\ UNCHANGED << pc, req >>
       ELSE /\ pc' = [pc EXCEPT ![p] = "fu_check"]
            /\ req' = [req EXCEPT ![p] =
                   [op |-> "farm_update", user |-> tok, id |-> farmId, body |-> body]]
            /\ resp' = [resp EXCEPT ![p] = NoResp]
    /\ UNCHANGED << dbVars, reportVars, refVars, authVars, regVars >>

\* the ownership query, then the SET clause is built: 403 for a farm that is
\* not the caller's, 400 when no key of the body names a column
FarmUpdateCheck(p) ==
    /\ pc[p] = "fu_check"
    /\ IF OwnedFarms(req[p].id, req[p].user.id) = {}
       THEN /\ resp' = [resp EXCEPT ![p] =
                   Response("farm_update", 403, "Not authorized to edit this farm",
                            [fid |-> req[p].id])]
            /\ pc' = [pc EXCEPT ![p] = "idle"]
            /\ req' = [req EXCEPT ![p] = NoReq]
       ELSE IF Updates(req[p].body) = << >>
       THEN /\ resp' = [resp EXCEPT ![p] =
                   Response("farm_update", 400, "No valid fields to update",
                            [fid |-> req[p].id])]
            /\ pc' = [pc EXCEPT ![p] = "idle"]
            /\ req' = [req EXCEPT ![p] = NoReq]
       ELSE /\ pc' = [pc EXCEPT ![p] = "fu_write"]
            /\ UNCHANGED << req, resp >>
    /\ UNCHANGED << dbVars, reportVars, refVars, authVars, regVars >>

\* an UPDATE without its WHERE clause
FarmUpdateWriteAll(p) ==
    /\ pc[p] = "fu_write"
    /\ farms' = { SetColumns(fm, Updates(req[p].body)) : fm \in farms }
    /\ resp' = [resp EXCEPT ![p] =
           Response("farm_update", 200, "Farm updated successfully", [fid |-> req[p].id])]
    /\ pc' = [pc EXCEPT ![p] = "idle"]
    /\ req' = [req EXCEPT ![p] = NoReq]
    /\ UNCHANGED << users, farmers, reportVars, refVars, authVars, regVars >>

\* UPDATE farms SET ... WHERE id = ?, or the statement fails and the catch
\* answers 500
FarmUpdateWrite(p) ==
    /\ pc[p] = "fu_write"
    /\ \/ /\ farms' = { IF fm.id = req[p].id
                        THEN SetColumns(fm, Updates(req[p].body))
                        ELSE fm : fm \in farms }
          /\ resp' = [resp EXCEPT ![p] =
                 Response("farm_update", 200, "Farm updated successfully",
                          [fid |-> req[p].id])]
       \/ /\ UNCHANGED farms
          /\ resp' = [resp EXCEPT ![p] =
                 Response("farm_update", 500, "Failed to update farm", [fid |-> req[p].id])]
    /\ pc' = [pc EXCEPT ![p] = "idle"]
    /\ req' = [req EXCEPT ![p] = NoReq]
    /\ UNCHANGED << users, farmers, reportVars, refVars, authVars, regVars >>

\* the request arrives and passes authenticateToken, or is answered 401 / 403
FarmDelete(p, tok, farmId) ==
    /\ pc[p] = "idle"
    /\ IF AuthenticateToken(tok) # 0
       THEN /\ resp' = [resp EXCEPT ![p] =
                   Response("farm_delete", AuthenticateToken(tok), "", [fid |-> farmId])]
            /\ UNCHANGED << pc, req >>
       ELSE /\ pc' = [pc EXCEPT ![p] = "fd_check"]
            /\ req' = [req EXCEPT ![p] =
                   [op |-> "farm_delete", user |-> tok, id |-> farmId]]
            /\ resp' = [resp EXCEPT ![p] = NoResp]
    /\ UNCHANGED << dbVars, reportVars, refVars, authVars, regVars >>

\* the ownership query
FarmDeleteCheck(p) ==
    /\ pc[p] = "fd_check"
    /\ IF OwnedFarms(req[p].id, req[p].user.id) = {}
       THEN /\ resp' = [resp EXCEPT ![p] =
                   Response("farm_delete", 403, "Not authorized to delete this farm",
                            [fid |-> req[p].id])]
            /\ pc' = [pc EXCEPT ![p] = "idle"]
            /\ req' = [req EXCEPT ![p] = NoReq]
       ELSE /\ pc' = [pc EXCEPT ![p] = "fd_write"]
            /\ UNCHANGED << req, resp >>
    /\ UNCHANGED << dbVars, reportVars, refVars, authVars, regVars >>

\* DELETE FROM farms WHERE id = ?, or the statement fails and the catch
\* answers 500
FarmDeleteWrite(p) ==
    /\ pc[p] = "fd_write"
    /\ \/ /\ farms' = { fm \in farms : fm.id # req[p].id }
          /\ resp' = [resp EXCEPT ![p] =
                 Response("farm_delete", 200, "Farm deleted successfully",
                          [fid |-> req[p].id])]
       \/ /\ UNCHANGED farms
          /\ resp' = [resp EXCEPT ![p] =
                 Response("farm_delete", 500, "Failed to delete farm", [fid |-> req[p].id])]
    /\ pc' = [pc EXCEPT ![p] = "idle"]
    /\ req' = [req EXCEPT ![p] = NoReq]
    /\ UNCHANGED << users, farmers, reportVars, refVars, authVars, regVars >>

\* the seeded database with two farmers, one farm each, both logged in
InitFarm ==
    /\ users = {SeedAdmin, SeedShara, SeedJames}
    /\ farmers = {SeedSharaFarmer, SeedJamesFarmer}
    /\ farms = SeedFarms
    /\ reports = {}
    /\ notifications = {}
    /\ activity_logs = << >>
    /\ tokens = {Claims(SeedShara), Claims(SeedJames)}
    /\ next_uuid = 1
    /\ next_farmer_id = 3
    /\ next_farm_id = 3
    /\ next_report_id = 1
    /\ report_comments = << >>
    /\ ReferenceSeeded
    /\ next_notif_id = 1
    /\ clock = 1
    /\ pc = [p \in Procs |-> "idle"]
    /\ req = [p \in Procs |-> NoReq]
    /\ tx = [p \in Procs |-> NoTx]
    /\ resp = [p \in Procs |-> NoResp]
    /\ overlap = [p \in Procs |-> {}]

\* :id of the farm routes: the farms that were created and one that was not
FarmIdParams == 1..next_farm_id

FarmUpdateArrive ==
    \E tok \in PresentableTokens, id \in FarmIdParams, body \in FarmBodies :
        FarmUpdate(Serial, tok, id, body)
FarmUpdateOwnership == FarmUpdateCheck(Serial)
FarmUpdateApply == FarmUpdateWrite(Serial)
FarmDeleteArrive ==
    \E tok \in PresentableTokens, id \in FarmIdParams : FarmDelete(Serial, tok, id)
FarmDeleteOwnership == FarmDeleteCheck(Serial)
FarmDeleteApply == FarmDeleteWrite(Serial)

NextFarm ==
    \/ FarmUpdateArrive \/ FarmUpdateOwnership \/ FarmUpdateApply
    \/ FarmDeleteArrive \/ FarmDeleteOwnership \/ FarmDeleteApply

SpecFarm == InitFarm /\ [][NextFarm]_vars

(***************************************************************************)
(* GET /api/admin/reports, GET /api/notifications, and a farmer's journey  *)
(* from registration to the notification of the admin's verdict            *)
(***************************************************************************)
\* parseInt(req.query.limit) || 20 with no limit in the query
DefaultLimit == 20

\* LIMIT ?: every row when there are at most limit of them, else limit rows
Limited(rows, limit) ==
    { s \in SUBSET rows :
        Cardinality(s) = IF Cardinality(rows) <= limit THEN Cardinality(rows) ELSE limit }

\* FROM reports r JOIN farmers f ON r.user_id = f.user_id WHERE 1=1
\* [AND r.status = ?]
AdminReportRows(status) ==
    { r \in reports :
        /\ \E f \in farmers : f.user_id = r.user_id
        /\ (status # NoChange /\ status # "all") => r.status = status }

\* GET /api/admin/reports?status=...: the first page, or 500 when a query fails
AdminReports(p, tok, status) ==
    /\ pc[p] = "idle"
    /\ IF RequireAdmin(tok) # 0
       THEN resp' = [resp EXCEPT ![p] =
                Response("admin_reports", RequireAdmin(tok), "", [status |-> status])]
       ELSE \/ \E page \in Limited(AdminReportRows(status), DefaultLimit) :
                 resp' = [resp EXCEPT ![p] =
                     Response("admin_reports", 200, "",
                              [status |-> status, ids |-> { r.id : r \in page }])]
            \/ resp' = [resp EXCEPT ![p] =
                   Response("admin_reports", 500, "Server error", [status |-> status])]
    /\ UNCHANGED << dbVars, reportVars, refVars, authVars, regVars, pc, req >>

\* a listing of the broadcast rows alone
NotificationRowsBroadcastOnly(userId) == { n \in notifications : n.user_id = NullUser }

\* SELECT * FROM notifications WHERE user_id = ?
NotificationRows(userId) == { n \in notifications : n.user_id = userId }

\* GET /api/notifications: the caller's rows, or 500 when the query fails
Notifications(p, tok) ==
    /\ pc[p] = "idle"
    /\ IF AuthenticateToken(tok) # 0
       THEN resp' = [resp EXCEPT ![p] =
                Response("notifications", AuthenticateToken(tok), "", [uid |-> NullUser])]
       ELSE \/ \E rows \in Limited(NotificationRows(tok.id), DefaultLimit) :
                 resp' = [resp EXCEPT ![p] =
                     Response("notifications", 200, "", [uid |-> tok.id, rows |-> rows])]
            \/ resp' = [resp EXCEPT ![p] =
                   Response("notifications", 500, "Failed to fetch notifications",
                            [uid |-> tok.id])]
    /\ UNCHANGED << dbVars, reportVars, refVars, authVars, regVars, pc, req >>

\* the registration of the scenario's farmer
JuanPayload ==
    [username |-> u_juan, email |-> e_juan, rsbsaId |-> r_099, password |-> "cropaid123"]

\* the scenario's requests are sent one after another: a request arrives
\* when no other is being served
Quiet == \A p \in Procs : pc[p] = "idle"

\* the tokens of logged-in farmers
FarmerTokens == { tok \in tokens : tok.role = "farmer" }

\* juan registers until an attempt succeeds, then logs in until a token is
\* issued
JourneyRegister ==
    /\ Quiet
    /\ ~\E u \in users : u.username = u_juan
    /\ Register(Serial, JuanPayload)
JourneyLogin ==
    /\ Quiet
    /\ FarmerTokens = {}
    /\ Login(Serial, "server", u_juan, "cropaid123")
JourneyFile ==
    /\ Quiet
    /\ \E tok \in FarmerTokens :
         SubmitReport(Serial, "server", tok, [type |-> "pest", photoBase64 |-> NoPhoto])
PendingListing ==
    /\ Quiet
    /\ AdminReports(Desk, Claims(SeedAdmin), "pending")
JourneyVerdict ==
    /\ Quiet
    /\ \E r \in reports :
         StatusRequest(Desk, Claims(SeedAdmin), r.id,
                       [status |-> "verified", adminNotes |-> "checked"])
Inbox == Quiet /\ \E tok \in FarmerTokens : Notifications(Serial, tok)

NextJourney ==
    \/ JourneyRegister \/ RegUser \/ RegFarmer \/ RegFarm \/ RegCommit
    \/ JourneyLogin \/ LoginFinish
    \/ JourneyFile \/ ReportHandle \/ ReportInsert \/ ReportNotify
    \/ PendingListing
    \/ JourneyVerdict \/ StatusHandle \/ StatusApply \/ StatusReadBack \/ StatusSend
    \/ Inbox

\* the database as seed.sql leaves it, the admin logged in
InitJourney ==
    /\ users = {SeedAdmin}
    /\ farmers = {}
    /\ farms = {}
    /\ reports = {}
    /\ notifications = {}
    /\ activity_logs = << >>
    /\ tokens = {Claims(SeedAdmin)}
    /\ next_uuid = 1
    /\ next_farmer_id = 1
    /\ next_farm_id = 1
    /\ next_report_id = 1
    /\ report_comments = << >>
    /\ ReferenceSeeded
    /\ next_notif_id = 1
    /\ clock = 1
    /\ pc = [p \in Procs |-> "idle"]
    /\ req = [p \in Procs |-> NoReq]
    /\ tx = [p \in Procs |-> NoTx]
    /\ resp = [p \in Procs |-> NoResp]
    /\ overlap = [p \in Procs |-> {}]

SpecJourney == InitJourney /\ [][NextJourney]_vars

(***************************************************************************)
(* POST /api/admin/farmers, and the routes that create or change accounts  *)
(***************************************************************************)
n_maria == <<"M","a","r","i","a">>
n_cruz == <<"C","r","u","z">>
s_local == <<"@","c","r","o","p","a","i","d",".","l","o","c","a","l">>

\* String.prototype.toLowerCase on the letters the names use
LowerChar(c) == CASE c = "M" -> "m" [] c = "C" -> "c" [] OTHER -> c
ToLowerCase(s) == [i \in 1..Len(s) |-> LowerChar(s[i])]

\* bodies of POST /api/admin/farmers; NullStr stands for an absent key
AdminFarmerBodies ==
    { [firstName |-> n_maria, lastName |-> n_cruz, rsbsaId |-> r_username7,
       username |-> u_emailer, email |-> e_maria, farmBarangay |-> <<"P">>],
      [firstName |-> n_maria, lastName |-> n_cruz, rsbsaId |-> r_099,
       username |-> NullStr, email |-> NullStr, farmBarangay |-> NullStr],
      [firstName |-> n_maria, lastName |-> NullStr, rsbsaId |-> r_username7,
       username |-> u_juan, email |-> NullStr, farmBarangay |-> NullStr] }

\* providedUsername || `${firstName.toLowerCase()}.${lastName.toLowerCase()}`
NewUsername(body) ==
    IF body.username # NullStr THEN body.username
    ELSE ToLowerCase(body.firstName) \o <<".">> \o ToLowerCase(body.lastName)

\* email || `${username}@cropaid.local`
NewEmail(body) ==
    IF body.email # NullStr THEN body.email ELSE NewUsername(body) \o s_local

\* the request arrives and passes authenticateToken and requireAdmin, or is
\* answered 401 / 403
AdminCreateFarmer(p, tok, body) ==
    /\ pc[p] = "idle"
    /\ IF RequireAdmin(tok) # 0
       THEN /\ resp' = [resp EXCEPT ![p] =
                   Response("create_farmer", RequireAdmin(tok), "", [uid |-> 0])]
            /\ UNCHANGED << pc, req >>
       ELSE /\ pc' = [pc EXCEPT ![p] = "af_check"]
            /\ req' = [req EXCEPT ![p] =
                   [op |-> "create_farmer", body |-> body, userId |-> 0, farmerId |-> 0]]
            /\ resp' = [resp EXCEPT ![p] = NoResp]
    /\ UNCHANGED << dbVars, reportVars, refVars, authVars, regVars >>

\* the response of the catch block and of the two early returns
AdminFarmerAnswer(p, status, error) ==
    /\ resp' = [resp EXCEPT ![p] =
           Response("create_farmer", status, error,
                    [uid |-> req[p].userId, stage |-> pc[p]])]
    /\ pc' = [pc EXCEPT ![p] = "idle"]
    /\ req' = [req EXCEPT ![p] = NoReq]

\* the required fields, SELECT id FROM farmers WHERE rsbsa_id = ?, randomUUID
AdminFarmerCheck(p) ==
    /\ pc[p] = "af_check"
    /\ LET body == req[p].body
       IN  IF body.firstName = NullStr \/ body.lastName = NullStr \/ body.rsbsaId = NullStr
           THEN /\ AdminFarmerAnswer(p, 400,
                        "First name, last name, and RSBSA ID are required")
                /\ UNCHANGED next_uuid
           ELSE \/ /\ \E f \in farmers : f.rsbsa_id = body.rsbsaId
                   /\ AdminFarmerAnswer(p, 400, "RSBSA ID already registered")
                   /\ UNCHANGED next_uuid
                \/ /\ ~\E f \in farmers : f.rsbsa_id = body.rsbsaId
                   /\ next_uuid <= MaxUuid
                   /\ req' = [req EXCEPT ![p].userId = next_uuid]
                   /\ next_uuid' = next_uuid + 1
                   /\ pc' = [pc EXCEPT ![p] = "af_user"]
                   /\ UNCHANGED resp
                \/ /\ AdminFarmerAnswer(p, 500, "Server error")
                   /\ UNCHANGED next_uuid
    /\ UNCHANGED << dbVars, reportVars, refVars, authVars, tx, overlap, next_farmer_id,
                    next_farm_id >>

\* INSERT INTO users (...) VALUES (?, ?, ?, ?, 'farmer', TRUE), on the pool
AdminFarmerInsertUser(p) ==
    /\ pc[p] = "af_user"
    /\ LET row == [id |-> req[p].userId, username |-> NewUsername(req[p].body),
                   email |-> NewEmail(req[p].body),
                   password_hash |-> Hash("cropaid123"),
                   role |-> "farmer", is_active |-> TRUE]
           out == InsertUserOutcome(p, row)
       IN  \/ /\ out.code = "OK"
              /\ users' = users \cup {row}
              /\ pc' = [pc EXCEPT ![p] = "af_farmer"]
              /\ UNCHANGED << req, resp >>
           \/ /\ out.code = "ER_DUP_ENTRY"
              /\ AdminFarmerAnswer(p, 400, "Email or username already exists")
              /\ UNCHANGED users
           \/ /\ out.code # "WAIT"
              /\ AdminFarmerAnswer(p, 500, "Server error")
              /\ UNCHANGED users
    /\ UNCHANGED << farmers, farms, reportVars, refVars, authVars, regVars >>

\* INSERT INTO farmers (user_id, rsbsa_id, ...), on the pool: the user row
\* is already stored
AdminFarmerInsertFarmer(p) ==
    /\ pc[p] = "af_farmer"
    /\ LET row == [id |-> next_farmer_id, user_id |-> req[p].userId,
                   rsbsa_id |-> req[p].body.rsbsaId]
           out == InsertFarmerOutcome(p, row)
       IN  \/ /\ out.code = "OK"
              /\ farmers' = farmers \cup {row}
              /\ next_farmer_id' = next_farmer_id + 1
              /\ req' = [req EXCEPT ![p].farmerId = next_farmer_id]
              /\ pc' = [pc EXCEPT ![p] = "af_farm"]
              /\ UNCHANGED resp
           \/ /\ out.code = "ER_DUP_ENTRY"
              /\ AdminFarmerAnswer(p, 400, "Email or username already exists")
              /\ UNCHANGED << farmers, next_farmer_id >>
           \/ /\ out.code # "WAIT"
              /\ AdminFarmerAnswer(p, 500, "Server error")
              /\ UNCHANGED << farmers, next_farmer_id >>
    /\ UNCHANGED << users, farms, reportVars, refVars, authVars, tx, overlap, next_uuid,
                    next_farm_id >>

\* if (farmBarangay || farmSize) INSERT INTO farms ...; res.status(201)
AdminFarmerInsertFarm(p) ==
    /\ pc[p] = "af_farm"
    /\ \/ /\ IF req[p].body.farmBarangay # NullStr
             THEN /\ farms' = farms \cup
                         {[id |-> next_farm_id, farmer_id |-> req[p].farmerId]}
                  /\ next_farm_id' = next_farm_id + 1
             ELSE UNCHANGED << farms, next_farm_id >>
          /\ AdminFarmerAnswer(p, 201, "")
       \/ /\ req[p].body.farmBarangay # NullStr
          /\ AdminFarmerAnswer(p, 500, "Server error")
          /\ UNCHANGED << farms, next_farm_id >>
    /\ UNCHANGED << users, farmers, reportVars, refVars, authVars, tx, overlap, next_uuid,
                    next_farmer_id >>

\* registration in one slot; farmer creation and account updates by the
\* admin in the other
RolesRegister == \E data \in {JuanPayload} : Register(Serial, data)
CreateArrive ==
    \E tok \in PresentableTokens, body \in AdminFarmerBodies :
        AdminCreateFarmer(Desk, tok, body)
CreateCheck == AdminFarmerCheck(Desk)
CreateUser == AdminFarmerInsertUser(Desk)
CreateFarmer == AdminFarmerInsertFarmer(Desk)
CreateFarm == AdminFarmerInsertFarm(Desk)
RolesPatch ==
    \E tok \in tokens, u \in users :
        \E body \in { b \in UserPatches : b.isActive = NoChange /\ b.role # NoChange } :
            AdminPatchUser(Desk, tok, u.id, body)

NextRoles ==
    \/ RolesRegister \/ RegUser \/ RegFarmer \/ RegFarm \/ RegCommit
    \/ CreateArrive \/ CreateCheck \/ CreateUser \/ CreateFarmer \/ CreateFarm
    \/ RolesPatch

SpecRoles == InitJourney /\ [][NextRoles]_vars

(***************************************************************************)
(* DELETE /api/admin/farmers/:id and DELETE /api/admin/users/:id           *)
(***************************************************************************)
\* DELETE FROM users WHERE id = ? on tables without foreign keys
UserDeletedNoCascade(uid) ==
    [users |-> { u \in users : u.id # uid },
     farmers |-> farmers, farms |-> farms, reports |-> reports,
     notifications |-> notifications]

\* DELETE FROM users WHERE id = ? with the foreign keys of schema.sql:
\* farmers, reports and notifications ON DELETE CASCADE, farms through
\* farmers, reports.verified_by ON DELETE SET NULL
UserDeleted(uid) ==
    LET gone == { f \in farmers : f.user_id = uid }
    IN  [users |-> { u \in users : u.id # uid },
         farmers |-> farmers \ gone,
         farms |-> { fm \in farms : ~\E f \in gone : f.id = fm.farmer_id },
         reports |-> { IF r.verified_by = uid THEN [r EXCEPT !.verified_by = NullUser]
                       ELSE r : r \in { x \in reports : x.user_id # uid } },
         notifications |-> { n \in notifications : n.user_id # uid }]

\* DELETE /api/admin/users/:id: one statement, or 500 when it fails
AdminDeleteUser(p, tok, id) ==
    /\ pc[p] = "idle"
    /\ IF RequireAdmin(tok) # 0
       THEN /\ resp' = [resp EXCEPT ![p] =
                   Response("delete_user", RequireAdmin(tok), "", [uid |-> id])]
            /\ UNCHANGED << dbVars, reports, notifications >>
       ELSE \/ LET t == UserDeleted(id)
               IN  /\ users' = t.users
                   /\ farmers' = t.farmers
                   /\ farms' = t.farms
                   /\ reports' = t.reports
                   /\ notifications' = t.notifications
                   /\ resp' = [resp EXCEPT ![p] =
                          Response("delete_user", 200, "User deleted", [uid |-> id])]
            \/ /\ resp' = [resp EXCEPT ![p] =
                      Response("delete_user", 500, "Server error", [uid |-> id])]
               /\ UNCHANGED << dbVars, reports, notifications >>
    /\ UNCHANGED << next_report_id, report_comments, refVars, next_notif_id, clock, authVars, regVars, pc, req >>

DeleteFarmerPcs == {"df_find", "df_reports", "df_farms", "df_farmer", "df_user", "df_commit"}

\* the request arrives and passes authenticateToken and requireAdmin, or is
\* answered 401 / 403; getConnection, beginTransaction
AdminDeleteFarmer(p, tok, target) ==
    /\ pc[p] = "idle"
    /\ IF RequireAdmin(tok) # 0
       THEN /\ resp' = [resp EXCEPT ![p] =
                   Response("delete_farmer", RequireAdmin(tok), "",
                            [uid |-> NullUser, fid |-> 0])]
            /\ UNCHANGED << pc, req >>
       ELSE /\ pc' = [pc EXCEPT ![p] = "df_find"]
            /\ req' = [req EXCEPT ![p] =
                   [op |-> "delete_farmer", target |-> target, farmerId |-> 0,
                    userId |-> NullUser]]
            /\ resp' = [resp EXCEPT ![p] = NoResp]
    /\ UNCHANGED << dbVars, reportVars, refVars, authVars, regVars >>

\* rollback and the response of an early return or of the catch block
DeleteFarmerRollback(p, status, error) ==
    /\ resp' = [resp EXCEPT ![p] =
           Response("delete_farmer", status, error,
                    [uid |-> req[p].userId, fid |-> req[p].farmerId, stage |-> pc[p]])]
    /\ pc' = [pc EXCEPT ![p] = "idle"]
    /\ req' = [req EXCEPT ![p] = NoReq]

\* SELECT id, user_id FROM farmers WHERE user_id = ? (a UUID) or WHERE id = ?
DeleteFarmerFind(p) ==
    /\ pc[p] = "df_find"
    /\ LET rows == { f \in farmers :
                       IF req[p].target.isUUID THEN f.user_id = req[p].target.id
                       ELSE f.id = req[p].target.id }
       IN  \/ /\ rows = {}
              /\ DeleteFarmerRollback(p, 404, "Farmer not found")
           \/ \E f \in rows :
                /\ req' = [req EXCEPT ![p].farmerId = f.id, ![p].userId = f.user_id]
                /\ pc' = [pc EXCEPT ![p] = "df_reports"]
                /\ UNCHANGED resp
           \/ DeleteFarmerRollback(p, 500, "Failed to delete farmer")
    /\ UNCHANGED << dbVars, reportVars, refVars, authVars, regVars >>

\* one DELETE of the transaction: it runs and takes effect at the commit, or
\* it fails and the catch block rolls back
DeleteFarmerStatement(p) ==
    /\ pc[p] \in {"df_reports", "df_farms", "df_farmer", "df_user"}
    /\ \/ /\ UNCHANGED req
          /\ pc' = [pc EXCEPT ![p] =
                 CASE pc[p] = "df_reports" -> "df_farms"
                   [] pc[p] = "df_farms" -> "df_farmer"
                   [] pc[p] = "df_farmer" -> "df_user"
                   [] OTHER -> "df_commit"]
          /\ UNCHANGED resp
       \/ DeleteFarmerRollback(p, 500, "Failed to delete farmer")
    /\ UNCHANGED << dbVars, reportVars, refVars, authVars, regVars >>

\* connection.commit(): DELETE FROM reports WHERE user_id, DELETE FROM farms
\* WHERE farmer_id, DELETE FROM farmers WHERE id and DELETE FROM users WHERE
\* id (with its cascades) become visible together
DeleteFarmerCommit(p) ==
    /\ pc[p] = "df_commit"
    /\ \/ LET t == UserDeleted(req[p].userId)
          IN  /\ users' = t.users
              /\ farmers' = { f \in t.farmers : f.id # req[p].farmerId }
              /\ farms' = { fm \in t.farms : fm.farmer_id # req[p].farmerId }
              /\ reports' = t.reports
              /\ notifications' = t.notifications
              /\ resp' = [resp EXCEPT ![p] =
                     Response("delete_farmer", 200,
                              "Farmer and all associated data deleted successfully",
                              [uid |-> req[p].userId, fid |-> req[p].farmerId,
                               stage |-> pc[p]])]
              /\ pc' = [pc EXCEPT ![p] = "idle"]
              /\ req' = [req EXCEPT ![p] = NoReq]
       \/ /\ DeleteFarmerRollback(p, 500, "Failed to delete farmer")
          /\ UNCHANGED << dbVars, reports, notifications >>
    /\ UNCHANGED << next_report_id, report_comments, refVars, next_notif_id, clock, authVars, regVars >>

\* the seeded database without reports, the admin and the farmer logged in
InitDelete ==
    /\ users = {SeedAdmin, SeedShara, SeedJames}
    /\ farmers = {SeedSharaFarmer, SeedJamesFarmer}
    /\ farms = SeedFarms
    /\ reports = {}
    /\ notifications = {}
    /\ activity_logs = << >>
    /\ tokens = {Claims(SeedAdmin), Claims(SeedShara)}
    /\ next_uuid = 1
    /\ next_farmer_id = 3
    /\ next_farm_id = 3
    /\ next_report_id = 1
    /\ report_comments = << >>
    /\ ReferenceSeeded
    /\ next_notif_id = 1
    /\ clock = 1
    /\ pc = [p \in Procs |-> "idle"]
    /\ req = [p \in Procs |-> NoReq]
    /\ tx = [p \in Procs |-> NoTx]
    /\ resp = [p \in Procs |-> NoResp]
    /\ overlap = [p \in Procs |-> {}]

\* reports are filed in one slot while the admin deletes accounts in the other
DeleteFile ==
    \E tok \in FarmerTokens :
        SubmitReport(Serial, "server", tok, [type |-> "pest", photoBase64 |-> NoPhoto])
DeleteFarmerArrive ==
    \E tok \in PresentableTokens, target \in FarmerStatusTargets :
        AdminDeleteFarmer(Desk, tok, target)
DeleteFarmerSelect == DeleteFarmerFind(Desk)
DeleteFarmerRun == DeleteFarmerStatement(Desk)
DeleteFarmerEnd == DeleteFarmerCommit(Desk)
DeleteUser ==
    \E tok \in PresentableTokens, u \in users : AdminDeleteUser(Desk, tok, u.id)

NextDelete ==
    \/ DeleteFile \/ ReportHandle \/ ReportInsert \/ ReportNotify
    \/ DeleteFarmerArrive \/ DeleteFarmerSelect \/ DeleteFarmerRun \/ DeleteFarmerEnd
    \/ DeleteUser

SpecDelete == InitDelete /\ [][NextDelete]_vars

(***************************************************************************)
(* POST /api/reports/:id/comments                                          *)
(***************************************************************************)
MaxComments == 2

\* String.prototype.trim
RECURSIVE TrimStart(_)
TrimStart(s) == IF s # << >> /\ Head(s) = " " THEN TrimStart(Tail(s)) ELSE s
RECURSIVE TrimEnd(_)
TrimEnd(s) ==
    IF s # << >> /\ s[Len(s)] = " " THEN TrimEnd(SubSeq(s, 1, Len(s) - 1)) ELSE s
Trim(s) == TrimEnd(TrimStart(s))

\* req.body.comment: a comment, one padded with a blank, blanks, none
CommentInputs == { <<"o","k">>, <<" ","o","k">>, <<" "," ">>, NullStr }

\* the notification rows of a comment: for the report's submitter when an
\* admin comments, else INSERT ... SELECT ... FROM users WHERE role = 'admin'
CommentNotifications(isAdmin, userId, id) ==
    IF isAdmin
    THEN { [id |-> next_notif_id, user_id |-> userId, type |-> "status_change",
            title |-> "Admin commented on your report",
            reference_id |-> ToString(id), is_read |-> FALSE] }
    ELSE LET order == CHOOSE f \in [Admins -> 0..(Cardinality(Admins) - 1)] :
                          \A a, b \in Admins : f[a] = f[b] => a = b
         IN  { [id |-> next_notif_id + order[a], user_id |-> a.id, type |-> "new_report",
                title |-> "New farmer comment on report",
                reference_id |-> ToString(id), is_read |-> FALSE] : a \in Admins }

\* the request arrives and passes authenticateToken, or is answered 401 / 403
CommentPost(p, tok, id, comment) ==
    /\ pc[p] = "idle"
    /\ Len(report_comments) < MaxComments
    /\ IF AuthenticateToken(tok) # 0
       THEN /\ resp' = [resp EXCEPT ![p] =
                   Response("comment", AuthenticateToken(tok), "", [rid |-> id])]
            /\ UNCHANGED << pc, req >>
       ELSE /\ pc' = [pc EXCEPT ![p] = "cm_handler"]
            /\ req' = [req EXCEPT ![p] =
                   [op |-> "comment", user |-> tok, id |-> id, comment |-> comment,
                    owner |-> NullUser]]
            /\ resp' = [resp EXCEPT ![p] = NoResp]
    /\ UNCHANGED << dbVars, reportVars, refVars, authVars, regVars >>

\* the response of an early return or of the catch block
CommentAnswer(p, status, error) ==
    /\ resp' = [resp EXCEPT ![p] =
           Response("comment", status, error,
                    [rid |-> req[p].id, uid |-> req[p].user.id, stage |-> pc[p]])]
    /\ pc' = [pc EXCEPT ![p] = "idle"]
    /\ req' = [req EXCEPT ![p] = NoReq]

\* the handler up to its first await: the empty-comment check
CommentHandler(p) ==
    /\ pc[p] = "cm_handler"
    /\ IF req[p].comment = NullStr \/ Len(Trim(req[p].comment)) = 0
       THEN CommentAnswer(p, 400, "Comment cannot be empty")
       ELSE /\ pc' = [pc EXCEPT ![p] = "cm_insert"]
            /\ UNCHANGED << req, resp >>
    /\ UNCHANGED << dbVars, reportVars, refVars, authVars, regVars >>

\* INSERT INTO report_comments (report_id, user_id, comment, is_admin)
CommentInsert(p) ==
    /\ pc[p] = "cm_insert"
    /\ \/ /\ report_comments' = Append(report_comments,
                 [report_id |-> req[p].id, user_id |-> req[p].user.id,
                  comment |-> Trim(req[p].comment),
                  is_admin |-> req[p].user.role = "admin"])
          /\ pc' = [pc EXCEPT ![p] = "cm_select"]
          /\ UNCHANGED << req, resp >>
       \/ /\ CommentAnswer(p, 500, "Failed to add comment")
          /\ UNCHANGED report_comments
    /\ UNCHANGED << dbVars, reports, notifications, refVars, next_report_id, next_notif_id, clock,
                    authVars, regVars >>

\* logActivity (a failure is swallowed), then res.status(201)
CommentDone(p) ==
    /\ LogActivity(req[p].user.id, "other")
    /\ UNCHANGED tokens
    /\ CommentAnswer(p, 201, "")

\* SELECT user_id, type FROM reports WHERE id = ?: with a row the handler goes
\* on to notify; without one it logs and answers 201
CommentSelect(p) ==
    /\ pc[p] = "cm_select"
    /\ \/ \E r \in reports :
            /\ r.id = req[p].id
            /\ req' = [req EXCEPT ![p].owner = r.user_id]
            /\ pc' = [pc EXCEPT ![p] = "cm_notify"]
            /\ UNCHANGED << resp, authVars >>
       \/ /\ ~\E r \in reports : r.id = req[p].id
          /\ CommentDone(p)
       \/ /\ CommentAnswer(p, 500, "Failed to add comment")
          /\ UNCHANGED authVars
    /\ UNCHANGED << dbVars, reportVars, refVars, regVars >>

\* INSERT INTO notifications for the other party, logActivity, res.status(201)
CommentNotify(p) ==
    /\ pc[p] = "cm_notify"
    /\ LET rows == CommentNotifications(req[p].user.role = "admin", req[p].owner,
                                        req[p].id)
       IN  \/ /\ notifications' = notifications \cup rows
              /\ next_notif_id' = next_notif_id + Cardinality(rows)
              /\ CommentDone(p)
           \/ /\ CommentAnswer(p, 500, "Failed to add comment")
              /\ UNCHANGED << notifications, next_notif_id, authVars >>
    /\ UNCHANGED << dbVars, reports, report_comments, refVars, next_report_id, clock, regVars >>

\* the seeded database with one report of shara, everyone logged in
InitComment ==
    /\ users = {SeedAdmin, SeedShara, SeedJames}
    /\ farmers = {SeedSharaFarmer, SeedJamesFarmer}
    /\ farms = SeedFarms
    /\ reports = {NewReport(1, SharaId, [type |-> "pest", photoBase64 |-> NoPhoto])}
    /\ notifications =
           {[id |-> 1, user_id |-> AdminId, type |-> "new_report", title |-> "New Report",
             reference_id |-> ToString(1), is_read |-> FALSE]}
    /\ report_comments = << >>
    /\ ReferenceSeeded
    /\ activity_logs = << >>
    /\ tokens = {Claims(SeedAdmin), Claims(SeedShara), Claims(SeedJames)}
    /\ next_uuid = 1
    /\ next_farmer_id = 3
    /\ next_farm_id = 3
    /\ next_report_id = 2
    /\ next_notif_id = 2
    /\ clock = 1
    /\ pc = [p \in Procs |-> "idle"]
    /\ req = [p \in Procs |-> NoReq]
    /\ tx = [p \in Procs |-> NoTx]
    /\ resp = [p \in Procs |-> NoResp]
    /\ overlap = [p \in Procs |-> {}]

CommentArrive ==
    \E tok \in PresentableTokens, id \in ReportIdParams, comment \in CommentInputs :
        CommentPost(Serial, tok, id, comment)
CommentCheck == CommentHandler(Serial)
CommentStore == CommentInsert(Serial)
CommentReadBack == CommentSelect(Serial)
CommentSend == CommentNotify(Serial)

NextComment ==
    CommentArrive \/ CommentCheck \/ CommentStore \/ CommentReadBack \/ CommentSend

SpecComment == InitComment /\ [][NextComment]_vars

(***************************************************************************)
(* GET /api/reports/history                                                *)
(***************************************************************************)
MaxHistory == 3

\* parseInt(req.query.limit) || 10, parseInt(req.query.page) || 1: 0 stands
\* for a parameter that is absent or not a number
DefaultHistoryLimit == 10
HistoryLimits == {0, 2}
HistoryPages == 0..((MaxHistory + 1) \div 2)
HistoryFilters ==
    { [status |-> NoChange, type |-> NoChange], [status |-> "pending", type |-> "all"],
      [status |-> "all", type |-> "flood"] }

\* a stored report with its created_at (CURRENT_TIMESTAMP, in seconds)
HistoryReport(id, userId, kind, createdAt) ==
    [id |-> id, user_id |-> userId, type |-> kind.type, status |-> kind.status,
     admin_notes |-> NullNotes, verified_by |-> NullUser, verified_at |-> NullTime,
     photo_base64 |-> NoPhoto, created_at |-> createdAt]

\* WHERE user_id = ? [AND status = ?] [AND type = ?]
HistoryRows(userId, status, type) ==
    { r \in reports :
        /\ r.user_id = userId
        /\ (status # NoChange /\ status # "all") => r.status = status
        /\ (type # NoChange /\ type # "all") => r.type = type }

\* ORDER BY created_at DESC: the orders the server may return the rows in;
\* rows with equal created_at come in any order, chosen anew by every query
OrderedByCreatedAt(rows) ==
    { f \in [1..Cardinality(rows) -> rows] :
        /\ \A i, j \in 1..Cardinality(rows) : f[i] = f[j] => i = j
        /\ \A i, j \in 1..Cardinality(rows) : i < j => f[i].created_at >= f[j].created_at }

\* LIMIT ? OFFSET ?
LimitOffset(seq, limit, offset) ==
    IF offset >= Len(seq) THEN << >>
    ELSE SubSeq(seq, offset + 1, IF offset + limit <= Len(seq) THEN offset + limit ELSE Len(seq))

\* Math.ceil(total / limit)
Ceil(total, limit) == (total + limit - 1) \div limit

\* GET /api/reports/history?page=&limit=&status=&type=: the page and the
\* count, or 500 when a query fails. The response also tells what a client
\* has read who asked for the pages in order from the first, with the same
\* filters.
History(p, tok, pageParam, limitParam, filter) ==
    /\ pc[p] = "idle"
    /\ IF AuthenticateToken(tok) # 0
       THEN resp' = [resp EXCEPT ![p] =
                Response("history", AuthenticateToken(tok), "", [uid |-> NullUser])]
       ELSE LET page == IF pageParam = 0 THEN 1 ELSE pageParam
                limit == IF limitParam = 0 THEN DefaultHistoryLimit ELSE limitParam
                offset == (page - 1) * limit
                rows == HistoryRows(tok.id, filter.status, filter.type)
                total == Cardinality(rows)
                prev == resp[p]
                chained == /\ prev.op = "history" /\ prev.status = 200
                           /\ prev.info.uid = tok.id /\ prev.info.limit = limit
                           /\ prev.info.filter = filter
                           /\ prev.info.fromFirst /\ prev.info.page + 1 = page
            IN  \/ \E ordered \in OrderedByCreatedAt(rows) :
                     LET ids == [i \in 1..Len(LimitOffset(ordered, limit, offset)) |->
                                    LimitOffset(ordered, limit, offset)[i].id]
                     IN  resp' = [resp EXCEPT ![p] =
                             Response("history", 200, "",
                                      [uid |-> tok.id, page |-> page, limit |-> limit,
                                       filter |-> filter, ids |-> ids, total |-> total,
                                       totalPages |-> Ceil(total, limit),
                                       fromFirst |-> (page = 1 \/ chained),
                                       read |-> IF page # 1 /\ chained
                                                THEN prev.info.read \o ids ELSE ids])]
                \/ resp' = [resp EXCEPT ![p] =
                       Response("history", 500, "Server error", [uid |-> tok.id])]
    /\ UNCHANGED << dbVars, reportVars, refVars, authVars, regVars, pc, req >>

\* what the reports of a history can be: a submitter, a type with a status
HistoryKinds ==
    { [type |-> "pest", status |-> "pending"], [type |-> "flood", status |-> "verified"] }

\* the seeded accounts, both farmers logged in, and MaxHistory reports of
\* shara (none of james) whose created_at does not decrease with the id
InitHistory ==
    /\ users = {SeedAdmin, SeedShara, SeedJames}
    /\ farmers = {SeedSharaFarmer, SeedJamesFarmer}
    /\ farms = SeedFarms
    /\ \E kind \in [1..MaxHistory -> HistoryKinds], at \in [1..MaxHistory -> 1..2] :
          /\ \A i, j \in 1..MaxHistory : i < j => at[i] <= at[j]
          /\ reports = { HistoryReport(i, SharaId, kind[i], at[i]) : i \in 1..MaxHistory }
    /\ notifications = {}
    /\ report_comments = << >>
    /\ ReferenceSeeded
    /\ activity_logs = << >>
    /\ tokens = {Claims(SeedShara), Claims(SeedJames)}
    /\ next_uuid = 1
    /\ next_farmer_id = 3
    /\ next_farm_id = 3
    /\ next_report_id = MaxHistory + 1
    /\ next_notif_id = 1
    /\ clock = 2
    /\ pc = [p \in Procs |-> "idle"]
    /\ req = [p \in Procs |-> NoReq]
    /\ tx = [p \in Procs |-> NoTx]
    /\ resp = [p \in Procs |-> NoResp]
    /\ overlap = [p \in Procs |-> {}]

HistoryRead ==
    \E tok \in tokens \cup {NoToken}, page \in HistoryPages, limit \in HistoryLimits,
       filter \in HistoryFilters :
        History(Serial, tok, page, limit, filter)

NextHistory == HistoryRead

SpecHistory == InitHistory /\ [][NextHistory]_vars

(***************************************************************************)
(* PATCH /api/notifications/:id/read, PATCH /api/notifications/read-all,   *)
(* DELETE /api/notifications/:id, DELETE /api/notifications/clear-read     *)
(***************************************************************************)
\* the DELETE routes under /api/notifications/, in the order app.delete
\* registers them
NotificationDeleteRoutes == << ":id", "clear-read" >>

\* a route pattern matches one path segment: a parameter matches any
\* segment, a literal only itself
RouteMatches(pattern, segment) == pattern = ":id" \/ pattern = segment

\* the router runs the first registered route that matches; the handlers
\* answer without calling next()
Dispatch(routes, segment) ==
    LET hits == { i \in 1..Len(routes) : RouteMatches(routes[i], segment) }
    IN  IF hits = {} THEN "none"
        ELSE routes[CHOOSE i \in hits : \A j \in hits : i <= j]

\* the path segments the requests carry
NotificationSegments == {"1", "2", "clear-read"}

\* id = ? with a string parameter against the INT column: the digits' value,
\* 0 for a string that does not start with a digit
NumberOf(segment) ==
    IF \E n \in 1..9 : ToString(n) = segment
    THEN CHOOSE n \in 1..9 : ToString(n) = segment
    ELSE 0

\* UPDATE notifications SET is_read = TRUE WHERE id = ? AND user_id = ?
NotificationMarkRead(p, tok, segment) ==
    /\ pc[p] = "idle"
    /\ IF AuthenticateToken(tok) # 0
       THEN /\ resp' = [resp EXCEPT ![p] =
                   Response("notification_read", AuthenticateToken(tok), "",
                            [path |-> segment, uid |-> NullUser])]
            /\ UNCHANGED notifications
       ELSE \/ /\ notifications' =
                     { IF n.id = NumberOf(segment) /\ n.user_id = tok.id
                       THEN [n EXCEPT !.is_read = TRUE] ELSE n : n \in notifications }
               /\ resp' = [resp EXCEPT ![p] =
                      Response("notification_read", 200, "",
                               [path |-> segment, uid |-> tok.id])]
            \/ /\ resp' = [resp EXCEPT ![p] =
                      Response("notification_read", 500, "Server error",
                               [path |-> segment, uid |-> tok.id])]
               /\ UNCHANGED notifications
    /\ UNCHANGED << dbVars, reports, report_comments, refVars, next_report_id, next_notif_id,
                    clock, authVars, regVars, pc, req >>

\* UPDATE notifications SET is_read = TRUE WHERE user_id = ?
NotificationReadAll(p, tok) ==
    /\ pc[p] = "idle"
    /\ IF AuthenticateToken(tok) # 0
       THEN /\ resp' = [resp EXCEPT ![p] =
                   Response("notification_read", AuthenticateToken(tok), "",
                            [path |-> "read-all", uid |-> NullUser])]
            /\ UNCHANGED notifications
       ELSE \/ /\ notifications' =
                     { IF n.user_id = tok.id
                       THEN [n EXCEPT !.is_read = TRUE] ELSE n : n \in notifications }
               /\ resp' = [resp EXCEPT ![p] =
                      Response("notification_read", 200, "",
                               [path |-> "read-all", uid |-> tok.id])]
            \/ /\ resp' = [resp EXCEPT ![p] =
                      Response("notification_read", 500, "Server error",
                               [path |-> "read-all", uid |-> tok.id])]
               /\ UNCHANGED notifications
    /\ UNCHANGED << dbVars, reports, report_comments, refVars, next_report_id, next_notif_id,
                    clock, authVars, regVars, pc, req >>

\* the rows a DELETE under /api/notifications/ removes, by the route that
\* serves it:
\*   :id         DELETE FROM notifications WHERE id = ? AND user_id = ?
\*   clear-read  DELETE FROM notifications WHERE user_id = ? AND is_read = TRUE
NotificationDeleted(route, segment, userId) ==
    IF route = ":id"
    THEN { n \in notifications : n.id = NumberOf(segment) /\ n.user_id = userId }
    ELSE IF route = "clear-read"
    THEN { n \in notifications : n.user_id = userId /\ n.is_read }
    ELSE {}

\* DELETE /api/notifications/<segment>: authenticateToken, then the handler
\* of the route the router picks; 500 when the statement fails (for the :id
\* route that includes a strict-mode refusal of a non-numeric id)
NotificationDelete(p, tok, segment) ==
    LET route == Dispatch(NotificationDeleteRoutes, segment)
        message == IF route = ":id" THEN "Notification deleted"
                   ELSE "Read notifications cleared"
    IN
    /\ pc[p] = "idle"
    /\ IF AuthenticateToken(tok) # 0
       THEN /\ resp' = [resp EXCEPT ![p] =
                   Response("notification_delete", AuthenticateToken(tok), "",
                            [path |-> segment, uid |-> NullUser, message |-> ""])]
            /\ UNCHANGED notifications
       ELSE \/ /\ notifications' =
                      notifications \ NotificationDeleted(route, segment, tok.id)
               /\ resp' = [resp EXCEPT ![p] =
                      Response("notification_delete", 200, "",
                               [path |-> segment, uid |-> tok.id, message |-> message])]
            \/ /\ resp' = [resp EXCEPT ![p] =
                      Response("notification_delete", 500, "Server error",
                               [path |-> segment, uid |-> tok.id, message |-> ""])]
               /\ UNCHANGED notifications
    /\ UNCHANGED << dbVars, reports, report_comments, refVars, next_report_id, next_notif_id,
                    clock, authVars, regVars, pc, req >>

\* the seeded accounts logged in, with notifications of earlier requests
InitNotifications ==
    /\ users = {SeedAdmin, SeedShara, SeedJames}
    /\ farmers = {SeedSharaFarmer, SeedJamesFarmer}
    /\ farms = SeedFarms
    /\ reports = {NewReport(1, SharaId, [type |-> "pest", photoBase64 |-> NoPhoto])}
    /\ notifications =
           {[id |-> 1, user_id |-> SharaId, type |-> "status_change",
             title |-> "Report verified", reference_id |-> ToString(1),
             is_read |-> FALSE],
            [id |-> 2, user_id |-> JamesId, type |-> "status_change",
             title |-> "Report verified", reference_id |-> ToString(2),
             is_read |-> FALSE],
            [id |-> 3, user_id |-> SharaId, type |-> "status_change",
             title |-> "Report resolved", reference_id |-> ToString(1),
             is_read |-> FALSE]}
    /\ report_comments = << >>
    /\ ReferenceSeeded
    /\ activity_logs = << >>
    /\ tokens = {Claims(SeedShara), Claims(SeedJames)}
    /\ next_uuid = 1
    /\ next_farmer_id = 3
    /\ next_farm_id = 3
    /\ next_report_id = 2
    /\ next_notif_id = 4
    /\ clock = 1
    /\ pc = [p \in Procs |-> "idle"]
    /\ req = [p \in Procs |-> NoReq]
    /\ tx = [p \in Procs |-> NoTx]
    /\ resp = [p \in Procs |-> NoResp]
    /\ overlap = [p \in Procs |-> {}]

MarkRead ==
    \E tok \in tokens \cup {NoToken}, segment \in NotificationSegments :
        NotificationMarkRead(Serial, tok, segment)
ReadAll == \E tok \in tokens \cup {NoToken} : NotificationReadAll(Serial, tok)
DeleteNotification ==
    \E tok \in tokens \cup {NoToken}, segment \in NotificationSegments :
        NotificationDelete(Serial, tok, segment)

NextNotifications == MarkRead \/ ReadAll \/ DeleteNotification

SpecNotifications == InitNotifications /\ [][NextNotifications]_vars

(***************************************************************************)
(* GET /api/barangays, GET /api/pest-types (cached), and the admin writes  *)
(* on the two tables                                                       *)
(***************************************************************************)
\* stdTTL of the cache, in ticks of the clock (3600 s in the source)
StdTTL == 1

\* the time the clock stops at
MaxNow == 2

\* AUTO_INCREMENT values the reference tables may reach
MaxRefId == 2

\* cache.get(key): the stored value while Date.now() has not passed the
\* entry's expiry time, undefined (NoValue) otherwise
CacheGetNoExpiry(key) == cache[key].v
CacheGet(key) ==
    IF cache[key] # NoEntry /\ ~(cache[key].t < clock) THEN cache[key].v ELSE NoValue

\* cache.set(key, value): the entry expires stdTTL after now
CacheSet(key, value) == [cache EXCEPT ![key] = [v |-> value, t |-> clock + StdTTL]]

\* SELECT id, name, ... FROM barangays /
\* SELECT id, name, ... FROM pest_categories WHERE is_active = TRUE
StoreRows(key) ==
    IF key = "barangays" THEN barangays
    ELSE { [id |-> r.id, name |-> r.name] : r \in { c \in pest_categories : c.is_active } }

\* the hard-coded fallback lists
Fallback(key) ==
    IF key = "barangays"
    THEN [fallback |-> TRUE, rows |-> {[id |-> 1, name |-> "Poblacion"]}]
    ELSE [fallback |-> TRUE, rows |-> {[id |-> 1, name |-> "Rice Black Bug"]}]

\* GET /api/barangays, GET /api/pest-types: a live entry is the answer; on a
\* miss (an expired entry is dropped by the lookup) the handler queries
ReferenceGet(p, key) ==
    /\ pc[p] = "idle"
    /\ IF CacheGet(key) # NoValue
       THEN /\ resp' = [resp EXCEPT ![p] =
                   Response("reference", 200, "",
                            [key |-> key, value |-> CacheGet(key), read |-> FALSE])]
            /\ UNCHANGED << pc, req, cache >>
       ELSE /\ pc' = [pc EXCEPT ![p] = "ref_query"]
            /\ req' = [req EXCEPT ![p] =
                   [op |-> "reference", key |-> key, failed |-> FALSE, rows |-> {}]]
            /\ cache' = [cache EXCEPT ![key] = NoEntry]
            /\ UNCHANGED resp
    /\ UNCHANGED << dbVars, reportVars, authVars, regVars, barangays, pest_categories,
                    ref_auto_increment >>

\* await pool.execute(SELECT ...): the rows at the time the statement runs,
\* or a rejection
ReferenceQuery(p) ==
    /\ pc[p] = "ref_query"
    /\ \/ req' = [req EXCEPT ![p].rows = StoreRows(req[p].key)]
       \/ req' = [req EXCEPT ![p].failed = TRUE]
    /\ pc' = [pc EXCEPT ![p] = "ref_store"]
    /\ UNCHANGED << dbVars, reportVars, authVars, regVars, refVars, resp >>

\* the continuation: rows.length > 0 stores and answers the rows; no rows or
\* a rejection stores and answers the fallback
ReferenceStore(p) ==
    /\ pc[p] = "ref_store"
    /\ LET value == IF ~req[p].failed /\ req[p].rows # {}
                    THEN [fallback |-> FALSE, rows |-> req[p].rows]
                    ELSE Fallback(req[p].key)
       IN  /\ cache' = CacheSet(req[p].key, value)
           /\ resp' = [resp EXCEPT ![p] =
                  Response("reference", 200, "",
                           [key |-> req[p].key, value |-> value, read |-> TRUE])]
    /\ pc' = [pc EXCEPT ![p] = "idle"]
    /\ req' = [req EXCEPT ![p] = NoReq]
    /\ UNCHANGED << dbVars, reportVars, authVars, regVars, barangays, pest_categories,
                    ref_auto_increment >>

\* the admin writes: PUT /:id (update) and DELETE /:id on barangays, POST
\* (create) on pest_categories
ReferenceWrites(table) ==
    IF table = "barangays"
    THEN [kind : {"update"}, id : {1}, name : {"Kibid"}, isActive : {TRUE}]
         \cup [kind : {"delete"}, id : {1}, name : {""}, isActive : {TRUE}]
    ELSE [kind : {"create"}, id : {0}, name : {"Rodents"}, isActive : {TRUE}]

\* the table after INSERT INTO ... VALUES / UPDATE ... WHERE id = ? /
\* DELETE FROM ... WHERE id = ?; is_active exists in pest_categories only
ReferenceWritten(table, rows, w) ==
    LET row(id, active) ==
            IF table = "barangays" THEN [id |-> id, name |-> w.name]
            ELSE [id |-> id, name |-> w.name, is_active |-> active]
    IN  IF w.kind = "create" THEN rows \cup {row(ref_auto_increment[table], TRUE)}
        ELSE IF w.kind = "update"
        THEN { IF r.id = w.id THEN row(r.id, w.isActive) ELSE r : r \in rows }
        ELSE { r \in rows : r.id # w.id }

\* POST/PUT/DELETE /api/admin/barangays, /api/admin/pest-categories: one
\* statement on the table, nothing on the cache
AdminReferenceWrite(p, tok, table, w) ==
    /\ pc[p] = "idle"
    /\ w.kind = "create" => ref_auto_increment[table] <= MaxRefId
    /\ IF RequireAdmin(tok) # 0
       THEN /\ resp' = [resp EXCEPT ![p] =
                   Response("reference_write", RequireAdmin(tok), "", [table |-> table])]
            /\ UNCHANGED << barangays, pest_categories, ref_auto_increment >>
       ELSE \/ /\ barangays' = IF table = "barangays"
                               THEN ReferenceWritten(table, barangays, w) ELSE barangays
               /\ pest_categories' = IF table = "pest_categories"
                                     THEN ReferenceWritten(table, pest_categories, w)
                                     ELSE pest_categories
               /\ ref_auto_increment' =
                      IF w.kind = "create"
                      THEN [ref_auto_increment EXCEPT ![table] = @ + 1]
                      ELSE ref_auto_increment
               /\ resp' = [resp EXCEPT ![p] =
                      Response("reference_write", IF w.kind = "create" THEN 201 ELSE 200,
                               "", [table |-> table])]
            \/ /\ resp' = [resp EXCEPT ![p] =
                      Response("reference_write", 500, "Server error", [table |-> table])]
               /\ UNCHANGED << barangays, pest_categories, ref_auto_increment >>
    /\ UNCHANGED << dbVars, reportVars, authVars, regVars, cache, pc, req >>

\* time passes
Tick ==
    /\ clock < MaxNow
    /\ clock' = clock + 1
    /\ UNCHANGED << dbVars, reports, notifications, report_comments, refVars,
                    next_report_id, next_notif_id, authVars, regVars, pc, req, resp >>

ReferenceArrive ==
    \/ \E p \in Procs : ReferenceGet(p, "barangays")
    \/ Quiet /\ ReferenceGet(Serial, "pest_types")
ReferenceRead == \E p \in Procs : ReferenceQuery(p)
ReferenceAnswer == \E p \in Procs : ReferenceStore(p)
ReferenceWrite ==
    \E table \in {"barangays", "pest_categories"} :
        \E w \in ReferenceWrites(table) :
            AdminReferenceWrite(Desk, Claims(SeedAdmin), table, w)

NextCache == ReferenceArrive \/ ReferenceRead \/ ReferenceAnswer \/ ReferenceWrite \/ Tick

\* the seeded database at time 0
InitCache ==
    /\ users = {SeedAdmin}
    /\ farmers = {}
    /\ farms = {}
    /\ reports = {}
    /\ notifications = {}
    /\ report_comments = << >>
    /\ ReferenceSeeded
    /\ activity_logs = << >>
    /\ tokens = {Claims(SeedAdmin)}
    /\ next_uuid = 1
    /\ next_farmer_id = 1
    /\ next_farm_id = 1
    /\ next_report_id = 1
    /\ next_notif_id = 1
    /\ clock = 0
    /\ pc = [p \in Procs |-> "idle"]
    /\ req = [p \in Procs |-> NoReq]
    /\ tx = [p \in Procs |-> NoTx]
    /\ resp = [p \in Procs |-> NoResp]
    /\ overlap = [p \in Procs |-> {}]

SpecCache == InitCache /\ [][NextCache]_vars

(***************************************************************************)
(* Login when one string is an identifier of two accounts                  *)
(***************************************************************************)
\* a registration whose username is the RSBSA id of the seeded farmer
ClashPayload ==
    [username |-> r_001, email |-> e_juan, rsbsaId |-> r_099, password |-> "secret12"]

ClashRegister ==
    /\ Quiet
    /\ ~\E u \in users : u.username = r_001
    /\ Register(Serial, ClashPayload)
ClashLogin ==
    /\ Quiet
    /\ \E i \in {u_shara, e_shara, r_001, e_juan, r_099}, w \in {"cropaid123", "secret12"} :
         Login(Serial, "server", i, w)

NextIdentity ==
    \/ ClashRegister \/ RegUser \/ RegFarmer \/ RegFarm \/ RegCommit
    \/ ClashLogin \/ LoginFinish

SpecIdentity == InitSeeded /\ [][NextIdentity]_vars

(***************************************************************************)
(* The status route on a database holding two reports                      *)
(***************************************************************************)
\* bodies with every allow-listed status, with notes, without, and with
\* empty notes
VerdictBodies == [status : StatusAllowList, adminNotes : {NoChange, "", "checked"}]

InitVerdict ==
    /\ users = {SeedAdmin, SeedShara}
    /\ farmers = {SeedSharaFarmer}
    /\ farms = {SeedSharaFarm}
    /\ reports = {NewReport(1, SharaId, [type |-> "pest", photoBase64 |-> NoPhoto]),
                  NewReport(2, SharaId, [type |-> "flood", photoBase64 |-> NoPhoto])}
    /\ notifications = {}
    /\ report_comments = << >>
    /\ ReferenceSeeded
    /\ activity_logs = << >>
    /\ tokens = {Claims(SeedAdmin), Claims(SeedShara)}
    /\ next_uuid = 1
    /\ next_farmer_id = 2
    /\ next_farm_id = 2
    /\ next_report_id = 3
    /\ next_notif_id = 1
    /\ clock = 1
    /\ pc = [p \in Procs |-> "idle"]
    /\ req = [p \in Procs |-> NoReq]
    /\ tx = [p \in Procs |-> NoTx]
    /\ resp = [p \in Procs |-> NoResp]
    /\ overlap = [p \in Procs |-> {}]

VerdictArrive ==
    \E id \in ReportIdParams, body \in VerdictBodies :
        StatusRequest(Desk, Claims(SeedAdmin), id, body)

NextVerdict == VerdictArrive \/ StatusHandle \/ StatusApply \/ StatusReadBack \/ StatusSend

SpecVerdict == InitVerdict /\ [][NextVerdict]_vars

(***************************************************************************)
(* Requests bearing tokens issued before the admin changed the accounts    *)
(***************************************************************************)
\* the seeded accounts, all logged in
InitToken ==
    /\ users = {SeedAdmin, SeedShara, SeedJames}
    /\ farmers = {SeedSharaFarmer, SeedJamesFarmer}
    /\ farms = SeedFarms
    /\ reports = {}
    /\ notifications = {}
    /\ report_comments = << >>
    /\ ReferenceSeeded
    /\ activity_logs = << >>
    /\ tokens = {Claims(SeedAdmin), Claims(SeedShara), Claims(SeedJames)}
    /\ next_uuid = 1
    /\ next_farmer_id = 3
    /\ next_farm_id = 3
    /\ next_report_id = 1
    /\ next_notif_id = 1
    /\ clock = 1
    /\ pc = [p \in Procs |-> "idle"]
    /\ req = [p \in Procs |-> NoReq]
    /\ tx = [p \in Procs |-> NoTx]
    /\ resp = [p \in Procs |-> NoResp]
    /\ overlap = [p \in Procs |-> {}]

\* deactivation, demotion or promotion, and deletion, by any issued token
TokenStatus ==
    \E tok \in tokens, target \in FarmerStatusTargets :
        AdminFarmerStatus(Desk, tok, target, FALSE)
TokenPatch ==
    \E tok \in tokens, u \in users, role \in {"admin", "farmer"} :
        AdminPatchUser(Desk, tok, u.id,
                       [isActive |-> NoChange, role |-> role, password |-> NoChange])
TokenDelete == \E tok \in tokens, u \in users : AdminDeleteUser(Desk, tok, u.id)

\* a route behind authenticateToken alone
TokenInbox == \E tok \in tokens \cup {NoToken} : Notifications(Serial, tok)

NextToken == TokenStatus \/ TokenPatch \/ TokenDelete \/ TokenInbox

SpecToken == InitToken /\ [][NextToken]_vars

(***************************************************************************)
(* POST /api/farmer/farm and POST /api/farmer/farms                        *)
(***************************************************************************)
\* the highest farm id the add-farm routes may draw
MaxFarms == 4

\* the two routes
AddFarmRoutes == {"farm", "farms"}

\* bodies: the barangay present or not, the latitude a number or a string
AddFarmBodies == [barangay : {"Liberty", NoChange}, latIsNumber : BOOLEAN]

\* FarmSchema.parse of /api/farmer/farms: farmLatitude is z.number().optional()
FarmSchemaOk(body) == body.latIsNumber

\* the bind values of /api/farmer/farm hold undefined (location_barangay is
\* passed as it is; the driver refuses undefined before sending anything)
BindsUndefined(route, body) == route = "farm" /\ body.barangay = NoChange

\* evaluating the 201 response: /api/farmer/farm builds
\* { id, lat, lng, barangay, size, message } and neither barangay nor size is
\* declared in the handler, which throws a ReferenceError
ResponseThrows(route) == route = "farm"

\* the request arrives: authenticateToken, and for /api/farmer/farms the
\* schema
AddFarm(p, tok, route, body) ==
    /\ pc[p] = "idle"
    /\ next_farm_id <= MaxFarms
    /\ IF AuthenticateToken(tok) # 0
       THEN /\ resp' = [resp EXCEPT ![p] =
                   Response("add_farm", AuthenticateToken(tok), "", [route |-> route])]
            /\ UNCHANGED << pc, req >>
       ELSE IF route = "farms" /\ ~FarmSchemaOk(body)
       THEN /\ resp' = [resp EXCEPT ![p] =
                   Response("add_farm", 400, "ZodError", [route |-> route])]
            /\ UNCHANGED << pc, req >>
       ELSE /\ pc' = [pc EXCEPT ![p] = "nf_select"]
            /\ req' = [req EXCEPT ![p] =
                   [op |-> "add_farm", user |-> tok, route |-> route, body |-> body,
                    farmerId |-> 0]]
            /\ resp' = [resp EXCEPT ![p] = NoResp]
    /\ UNCHANGED << dbVars, reportVars, refVars, authVars, regVars >>

\* the response of an early return or of the catch block
AddFarmAnswer(p, status, error) ==
    /\ resp' = [resp EXCEPT ![p] =
           Response("add_farm", status, error, [route |-> req[p].route])]
    /\ pc' = [pc EXCEPT ![p] = "idle"]
    /\ req' = [req EXCEPT ![p] = NoReq]

\* SELECT id FROM farmers WHERE user_id = ?
AddFarmSelect(p) ==
    /\ pc[p] = "nf_select"
    /\ \/ \E f \in farmers :
            /\ f.user_id = req[p].user.id
            /\ req' = [req EXCEPT ![p].farmerId = f.id]
            /\ pc' = [pc EXCEPT ![p] = "nf_insert"]
            /\ UNCHANGED resp
       \/ /\ ~\E f \in farmers : f.user_id = req[p].user.id
          /\ AddFarmAnswer(p, 404, "Farmer profile not found")
       \/ AddFarmAnswer(p, 500, "Failed to add farm")
    /\ UNCHANGED << dbVars, reportVars, refVars, authVars, regVars >>

\* INSERT INTO farms (...), then the response is built and sent
AddFarmInsert(p) ==
    /\ pc[p] = "nf_insert"
    /\ \/ /\ ~BindsUndefined(req[p].route, req[p].body)
          /\ \E f \in farmers : f.id = req[p].farmerId
          /\ farms' = farms \cup
                 {FarmRow(next_farm_id, req[p].farmerId,
                          IF req[p].body.barangay = NoChange THEN NullNotes
                          ELSE req[p].body.barangay,
                          NullNotes, "6.5050")}
          /\ next_farm_id' = next_farm_id + 1
          /\ IF ResponseThrows(req[p].route)
             THEN AddFarmAnswer(p, 500, "Failed to add farm")
             ELSE AddFarmAnswer(p, 201, "")
       \/ /\ AddFarmAnswer(p, 500, "Failed to add farm")
          /\ UNCHANGED << farms, next_farm_id >>
    /\ UNCHANGED << users, farmers, reportVars, refVars, authVars, next_uuid, next_farmer_id,
                    tx, overlap >>

AddFarmArrive ==
    \E tok \in tokens \cup {NoToken}, route \in AddFarmRoutes, body \in AddFarmBodies :
        AddFarm(Serial, tok, route, body)
AddFarmFind == AddFarmSelect(Serial)
AddFarmStore == AddFarmInsert(Serial)

NextAddFarm == AddFarmArrive \/ AddFarmFind \/ AddFarmStore

SpecAddFarm == InitToken /\ [][NextAddFarm]_vars

(***************************************************************************)
(* Two admins changing the status of the same report                       *)
(***************************************************************************)
\* shara after PATCH /api/admin/users/:id { role: 'admin' }
SecondAdmin == [SeedShara EXCEPT !.role = "admin"]

\* the report both admins act on
RacedReport == 1

\* james's report, the seeded admin and the promoted one logged in
InitRace ==
    /\ users = {SeedAdmin, SecondAdmin, SeedJames}
    /\ farmers = {SeedSharaFarmer, SeedJamesFarmer}
    /\ farms = SeedFarms
    /\ reports = {NewReport(RacedReport, JamesId, [type |-> "pest", photoBase64 |-> NoPhoto])}
    /\ notifications = {}
    /\ report_comments = << >>
    /\ ReferenceSeeded
    /\ activity_logs = << >>
    /\ tokens = {Claims(SeedAdmin), Claims(SecondAdmin)}
    /\ next_uuid = 1
    /\ next_farmer_id = 3
    /\ next_farm_id = 3
    /\ next_report_id = 2
    /\ next_notif_id = 1
    /\ clock = 1
    /\ pc = [p \in Procs |-> "idle"]
    /\ req = [p \in Procs |-> NoReq]
    /\ tx = [p \in Procs |-> NoTx]
    /\ resp = [p \in Procs |-> NoResp]
    /\ overlap = [p \in Procs |-> {}]

\* the seeded admin uses one slot, the promoted admin the other
RaceArrive ==
    \E status \in StatusAllowList :
        \/ StatusRequest(Desk, Claims(SeedAdmin), RacedReport,
                         [status |-> status, adminNotes |-> NoChange])
        \/ StatusRequest(Serial, Claims(SecondAdmin), RacedReport,
                         [status |-> status, adminNotes |-> NoChange])
RaceHandle == \E p \in Procs : StatusHandler(p)
RaceApply == \E p \in Procs : StatusUpdate(p)
RaceReadBack == \E p \in Procs : StatusSelect(p)
RaceSend == \E p \in Procs : StatusNotify(p)

NextRace == RaceArrive \/ RaceHandle \/ RaceApply \/ RaceReadBack \/ RaceSend

SpecRace == InitRace /\ [][NextRace]_vars

(***************************************************************************)
(* Registration claims (checked under SpecReg)                             *)
(***************************************************************************)
RegisteredIds == 1..(next_uuid - 1)

UserRows(uid) == { u \in users : u.id = uid }
FarmerRows(uid) == { f \in farmers : f.user_id = uid }
FarmRows(uid) == { m \in farms : \E f \in FarmerRows(uid) : m.farmer_id = f.id }

AllThree(uid) ==
    /\ Cardinality(UserRows(uid)) = 1
    /\ Cardinality(FarmerRows(uid)) = 1
    /\ Cardinality(FarmRows(uid)) = 1

NoneOfThree(uid) ==
    /\ UserRows(uid) = {}
    /\ FarmerRows(uid) = {}
    /\ \A m \in farms : \A q \in Procs : \A f \in tx[q].farmers :
           f.user_id = uid => m.farmer_id # f.id

Finished(p) == pc[p] = "idle" /\ resp[p].op = "register"

\* C1: registration is atomic. For every user id a registration attempt drew,
\* the tables hold either exactly one user, one farmer and one farm linked to
\* each other, or none of the three; while the attempt is in flight they hold
\* none; after a 201 they hold all three and after an error none.
C1_RegistrationAtomic ==
    /\ \A uid \in RegisteredIds : AllThree(uid) \/ NoneOfThree(uid)
    /\ \A p \in Procs :
        /\ pc[p] \in RegPcs => NoneOfThree(req[p].userId)
        /\ (Finished(p) /\ resp[p].status = 201) => AllThree(resp[p].info.uid)
        /\ (Finished(p) /\ resp[p].status # 201 /\ resp[p].info.uid # 0)
               => NoneOfThree(resp[p].info.uid)

\* a registration failed at the farmer or farm insert (its user insert had
\* succeeded) and left nothing, while another one committed
C1_Witness ==
    \E p, q \in Procs :
        /\ Finished(p) /\ resp[p].status # 201
        /\ resp[p].info.stage \in {"reg_farmer", "reg_farm", "reg_commit"}
        /\ NoneOfThree(resp[p].info.uid)
        /\ Finished(q) /\ resp[q].status = 201 /\ AllThree(resp[q].info.uid)

UniqueKeys ==
    /\ \A u, v \in users : u.username = v.username => u = v
    /\ \A u, v \in users : (u.email # NullStr /\ u.email = v.email) => u = v
    /\ \A f, g \in farmers : f.rsbsa_id = g.rsbsa_id => f = g

\* the step in which slot p's registration sends its response
RegisterEnds(p) == pc[p] \in RegPcs /\ pc'[p] = "idle"

\* C2: usernames, non-null emails and rsbsa_ids are unique in every reachable
\* state, and a registration whose rsbsa_id a farmer already holds adds no row
\* and, unless the datastore fails for another reason, ends in 409 Conflict.
C2_UniqueIdentifiers ==
    /\ []UniqueKeys
    /\ [][\A p \in Procs :
            (/\ RegisterEnds(p)
             /\ \E f \in farmers : f.rsbsa_id = req[p].data.rsbsaId)
            => /\ resp'[p].status # 201
               /\ resp'[p].info.cause # "fault" => resp'[p].status = 409
               /\ users' = users /\ farmers' = farmers /\ farms' = farms]_vars

\* a second registration with a held rsbsa_id (fresh username and email) was
\* answered 409 at the farmer insert
C2_Witness ==
    \E p \in Procs :
        /\ Finished(p) /\ resp[p].status = 409
        /\ resp[p].info.stage = "reg_farmer"
        /\ \E f \in farmers :
               f.rsbsa_id = resp[p].info.data.rsbsaId /\ f.user_id # resp[p].info.uid

\* the conflict messages a duplicate met in the step may be answered with
ViolatedFields(p) ==
    IF pc[p] = "reg_farmer"
    THEN {"RSBSA ID already exists"}
    ELSE { "Username already exists" :
               u \in { v \in users : v.username = req[p].data.username } }
         \cup { "Email already exists" :
               u \in { v \in users : v.email = req[p].data.email } }

\* C3: a 409 answer to a registration names the field whose unique key was
\* violated: email only for a duplicate email, never for a duplicate
\* username or rsbsa_id alone.
C3_ConflictNamesField ==
    [][\A p \in Procs :
          (RegisterEnds(p) /\ resp'[p].status = 409)
          => resp'[p].error \in ViolatedFields(p)]_vars

SharesIdentifier(a, b) ==
    a.username = b.username \/ a.email = b.email \/ a.rsbsaId = b.rsbsaId

\* C4: of two registrations that ran concurrently and carry the same
\* username, email or rsbsa_id, at most one commits; the other is answered
\* with an error and leaves no user, farmer or farm row.
C4_ConcurrentRegistration ==
    \A p, q \in Procs :
        (/\ p # q /\ q \in overlap[p]
         /\ Finished(p) /\ Finished(q)
         /\ SharesIdentifier(resp[p].info.data, resp[q].info.data))
        => /\ ~(resp[p].status = 201 /\ resp[q].status = 201)
           /\ resp[p].status # 201
                => resp[p].status \in {409, 500} /\ NoneOfThree(resp[p].info.uid)

\* two registrations with the same username ran concurrently: one committed,
\* the other waited for it and was answered 409
C4_Witness ==
    \E p, q \in Procs :
        /\ p # q /\ q \in overlap[p] /\ p \in overlap[q]
        /\ Finished(p) /\ Finished(q)
        /\ resp[p].info.data.username = resp[q].info.data.username
        /\ resp[p].status = 201 /\ resp[q].status = 409
        /\ AllThree(resp[p].info.uid) /\ NoneOfThree(resp[q].info.uid)

(***************************************************************************)
(* Login claims (checked under SpecAuth)                                   *)
(***************************************************************************)
\* the step in which slot p's login is looked up and answered
LoginEnds(p) == pc[p] = "login" /\ pc'[p] = "idle"

Matches(u, identifier) ==
    u.username = identifier \/ u.email = identifier \/ HasRsbsa(u, identifier)

NoActiveUser(identifier) ==
    \A u \in users : Matches(u, identifier) => ~u.is_active

WrongPassword(identifier, password) ==
    /\ \E u \in users : Matches(u, identifier) /\ u.is_active
    /\ \A u \in users :
           (Matches(u, identifier) /\ u.is_active) => u.password_hash # Hash(password)

\* C5: in seed.sql and index.js a login whose identifier matches no active
\* user and a login with a matching identifier and a wrong password get the
\* same answer, 401 'Invalid credentials', and change nothing: no token is
\* signed and no activity-log row is written.
C5_NoEnumeration ==
    [][\A p \in Procs :
          (/\ LoginEnds(p)
           /\ req[p].variant \in {"server", "index"}
           /\ \/ NoActiveUser(req[p].identifier)
              \/ WrongPassword(req[p].identifier, req[p].password))
          => /\ resp'[p].status = 401
             /\ resp'[p].error = "Invalid credentials"
             /\ tokens' = tokens
             /\ activity_logs' = activity_logs
             /\ users' = users]_vars

\* a login with a wrong password for an existing active user was answered 401
\* after tokens had been issued and logged
C5_Witness ==
    \E p \in Procs :
        /\ pc[p] = "idle" /\ resp[p].op = "login" /\ resp[p].status = 401
        /\ resp[p].info.cause = "bad_password"
        /\ resp[p].info.variant = "server"
        /\ tokens # {} /\ Len(activity_logs) > 0

\* C6: login never signs a token for a user whose is_active flag is false
\* at the time of the lookup, whichever identifier kind and password is sent.
C6_NoTokenForInactive ==
    [][\A p \in Procs :
          (LoginEnds(p) /\ resp'[p].status = 200)
          => \E u \in users : u.id = resp'[p].info.uid /\ u.is_active]_vars

(***************************************************************************)
(* Report submission claims (checked under SpecSubmit)                     *)
(***************************************************************************)
\* the step in which slot p's submission handler validates the body
SubmitHandled(p) == pc[p] = "sub_handler" /\ pc'[p] # "sub_handler"

\* the step in which slot p's submission is answered 201
SubmitNotified(p) == pc[p] = "sub_notify" /\ pc'[p] = "idle"

\* C7: in seed.sql a submission whose photo decodes to more than 10 MB
\* (10 * 1024 * 1024 bytes) is answered 400 in the step that validates it,
\* the request ends there, and no report, notification or activity-log row
\* is written.
C7_OversizePhotoRejected ==
    [][\A p \in Procs :
          (/\ SubmitHandled(p)
           /\ req[p].variant = "server"
           /\ (req[p].data.photoBase64.chars \div 4) * 3 - req[p].data.photoBase64.pad
                  > 10485760)
          => /\ resp'[p].status = 400
             /\ pc'[p] = "idle"
             /\ reports' = reports
             /\ notifications' = notifications
             /\ activity_logs' = activity_logs
             /\ next_report_id' = next_report_id]_vars

\* a submission was answered with the photo-size error and the tables are
\* still empty
C7_Witness ==
    \E p \in Procs :
        /\ pc[p] = "idle" /\ resp[p].op = "submit" /\ resp[p].status = 400
        /\ resp[p].error = "Photo size exceeds the 10MB limit"
        /\ reports = {} /\ notifications = {} /\ activity_logs = << >>

\* C8: a submission answered 201 has created one pending report owned by the
\* submitter and, unless the datastore failed on the notification statement,
\* exactly one new_report notification referencing the report for each user
\* whose role is admin, however many there are, and none for anyone else.
C8_OneNotificationPerAdmin ==
    [][\A p \in Procs :
          (SubmitNotified(p) /\ resp'[p].info.notify # "fault")
          => /\ resp'[p].status = 201
             /\ \E r \in reports :
                   /\ r.id = req[p].reportId
                   /\ r.status = "pending"
                   /\ r.user_id = req[p].user.id
             /\ notifications \subseteq notifications'
             /\ LET added == notifications' \ notifications
                IN  /\ \A a \in Admins :
                          Cardinality({ n \in added :
                              /\ n.user_id = a.id
                              /\ n.type = "new_report"
                              /\ n.reference_id = ToString(req[p].reportId) }) = 1
                    /\ \A n \in added : \E a \in Admins : n.user_id = a.id]_vars

(***************************************************************************)
(* Status claims (checked under SpecStatus)                                *)
(***************************************************************************)
\* the step in which slot p's status handler checks the target status
StatusHandled(p) == pc[p] = "st_handler" /\ pc'[p] # "st_handler"

\* C9: a status request by an admin whose target status is not pending,
\* verified, resolved or rejected (an absent target included) is answered
\* 400 'Invalid status' and ends; the reports (status, admin notes, verifier,
\* verified timestamp) and the notifications stay as they were.
C9_InvalidStatusRejected ==
    [][\A p \in Procs :
          (/\ StatusHandled(p)
           /\ req[p].status \notin {"pending", "verified", "resolved", "rejected"})
          => /\ resp'[p].status = 400
             /\ resp'[p].error = "Invalid status"
             /\ pc'[p] = "idle"
             /\ reports' = reports
             /\ notifications' = notifications
             /\ clock' = clock]_vars

\* a request was answered 'Invalid status' after the report had been verified,
\* and the report is as the verification left it
C9_Witness ==
    \E p \in Procs :
        /\ pc[p] = "idle" /\ resp[p].op = "status" /\ resp[p].status = 400
        /\ resp[p].error = "Invalid status"
        /\ \E r \in reports :
               /\ r.id = resp[p].info.rid
               /\ r.status = "verified" /\ r.verified_by = AdminId
               /\ r.verified_at = clock - 1

\* the transition set of the specification
SpecTransitions ==
    { <<"pending", "verified">>, <<"pending", "resolved">>, <<"pending", "rejected">>,
      <<"verified", "resolved">>, <<"verified", "rejected">>,
      <<"resolved", "rejected">> }

\* C10 as stated: every change of a report's status is one of
\* pending->verified, pending->resolved, pending->rejected,
\* verified->resolved, verified->rejected or any status->rejected.
C10_TransitionSet ==
    [][\A r \in reports : \A t \in reports' :
          (r.id = t.id /\ r.status # t.status)
          => << r.status, t.status >> \in SpecTransitions]_vars

\* C10 as the code has it: every change of a report's status is made by the
\* UPDATE of a status request that carries an admin token, and the new status
\* is the request's target, one of pending, verified, resolved, rejected,
\* whatever the status was before (resolved->pending included).
C10_AnyAllowListedChange ==
    [][\A r \in reports : \A t \in reports' :
          (r.id = t.id /\ r.status # t.status)
          => /\ t.status \in {"pending", "verified", "resolved", "rejected"}
             /\ \E p \in Procs :
                   /\ pc[p] = "st_update" /\ pc'[p] = "st_select"
                   /\ req[p].id = r.id
                   /\ req[p].status = t.status
                   /\ req[p].user.role = "admin"]_vars

\* the report was resolved (the notification of it was sent) and a later
\* request took it back to pending
C10_Witness ==
    \E r \in reports :
        /\ r.status = "pending" /\ r.verified_at = 2
        /\ \E n \in notifications :
               /\ n.type = "status_change" /\ n.title = "Report resolved"
               /\ n.reference_id = ToString(r.id)

\* the awaits of the status handler
StatusPcs == {"st_handler", "st_update", "st_select", "st_notify"}

\* the columns the status route writes
StatusColumns(r) == << r.status, r.admin_notes, r.verified_by, r.verified_at >>

\* C11: only a request that carries a signed token whose role claim is admin
\* gets into the status handler, and a report's status, admin notes, verifier
\* or verified timestamp change only in the UPDATE of such a request; a
\* request without a token, with a token the server did not sign or with a
\* farmer's token leaves every report as it was.
C11_AdminOnlyStatusChange ==
    /\ [](\A p \in Procs :
            pc[p] \in StatusPcs => req[p].user \in tokens /\ req[p].user.role = "admin")
    /\ [][\A r \in reports : \A t \in reports' :
            (r.id = t.id /\ StatusColumns(r) # StatusColumns(t))
            => \E p \in Procs :
                  /\ pc[p] = "st_update"
                  /\ req[p].id = r.id
                  /\ req[p].user \in tokens
                  /\ req[p].user.role = "admin"]_vars
    /\ [][\A p \in Procs :
            (/\ pc[p] = "idle" /\ pc'[p] = "idle"
             /\ resp'[p] # resp[p] /\ resp'[p].op = "status")
            => /\ resp'[p].status \in {401, 403}
               /\ reports' = reports
               /\ notifications' = notifications]_vars

\* a status request was refused with 403 after the admin had verified the
\* report, and the report is as the admin left it
C11_Witness ==
    \E p \in Procs :
        /\ pc[p] = "idle" /\ resp[p].op = "status" /\ resp[p].status = 403
        /\ \E r \in reports :
               /\ r.id = resp[p].info.rid
               /\ r.status = "verified" /\ r.verified_by = AdminId

\* the step in which slot p's accepted status request is answered
StatusAnswered(p) == pc[p] \in {"st_select", "st_notify"} /\ pc'[p] = "idle"

BelongsTo(fm, tok) ==
    \E f \in farmers : f.id = fm.farmer_id /\ f.user_id = tok.id

\* the step in which the ownership query of slot p's request is answered
OwnershipChecked(p) == pc[p] \in {"fu_check", "fd_check"} /\ pc'[p] # pc[p]

\* C14: an update or delete request on a farm that does not belong to the
\* caller's farmer profile is answered 403 by the ownership query and ends
\* there; no such request reaches the UPDATE or DELETE, and the farm stays
\* with every column as it was.
C14_ForeignFarmForbidden ==
    /\ [](\A p \in Procs :
            pc[p] \in {"fu_write", "fd_write"}
            => \A fm \in farms : fm.id = req[p].id => BelongsTo(fm, req[p].user))
    /\ [][\A p \in Procs :
            (/\ OwnershipChecked(p)
             /\ \A fm \in farms : fm.id = req[p].id => ~BelongsTo(fm, req[p].user))
            => /\ resp'[p].status = 403
               /\ pc'[p] = "idle"
               /\ farms' = farms]_vars

\* james asked to delete shara's farm after shara had updated it: the answer
\* was 403 and the farm is as shara left it
C14_Witness ==
    \E p \in Procs : \E fm \in farms :
        /\ pc[p] = "idle" /\ resp[p].op = "farm_delete" /\ resp[p].status = 403
        /\ resp[p].error = "Not authorized to delete this farm"
        /\ resp[p].info.fid = fm.id
        /\ fm = FarmRow(1, 1, "San Jose", "3.2", "6.5250")

\* key k of a body names column c, by the column's name or by its alias
KeyNames(k, c) ==
    \/ k = c
    \/ k = "size" /\ c = "farm_size_hectares"
    \/ k = "barangay" /\ c = "location_barangay"
    \/ k = "lat" /\ c = "latitude"

\* the columns of a farm the update route may write
WritableColumns == {"farm_size_hectares", "location_barangay", "latitude"}

\* the values the body gives for column c
ValuesFor(body, c) ==
    { body[i].value : i \in { j \in 1..Len(body) : KeyNames(body[j].key, c) } }

\* an accepted update writes, on the addressed farm, the columns the body
\* names and nothing else
WritesOnlyNamedColumns(p) ==
    (pc[p] = "fu_write" /\ resp'[p].status = 200)
    => /\ Cardinality(farms') = Cardinality(farms)
       /\ \A fm \in farms :
             IF fm.id # req[p].id THEN fm \in farms'
             ELSE \E t \in farms' :
                    /\ t.id = fm.id
                    /\ t.farmer_id = fm.farmer_id
                    /\ \A c \in WritableColumns :
                          IF ValuesFor(req[p].body, c) = {}
                          THEN t[c] = fm[c]
                          ELSE t[c] \in ValuesFor(req[p].body, c)

\* the owner's body carries a key that names no column
HasUnknownKey(p) ==
    /\ pc[p] = "fu_check"
    /\ \E fm \in farms : fm.id = req[p].id /\ BelongsTo(fm, req[p].user)
    /\ \E i \in 1..Len(req[p].body) :
          \A c \in WritableColumns : ~KeyNames(req[p].body[i].key, c)

\* C15 as stated: an update writes only the columns its body names, and a key
\* that names no column is ignored without an error.
C15_UnknownKeysIgnored ==
    [][\A p \in Procs :
          /\ WritesOnlyNamedColumns(p)
          /\ (HasUnknownKey(p) /\ pc'[p] # pc[p]) => pc'[p] = "fu_write"]_vars

\* C15 as the code has it: an update writes only the columns its body names;
\* a key that names no column is ignored and not written when the body names
\* at least one column, and a body that names no column at all is answered
\* 400 'No valid fields to update' and writes nothing.
C15_WritesNamedColumnsOnly ==
    [][\A p \in Procs :
          /\ WritesOnlyNamedColumns(p)
          /\ (HasUnknownKey(p) /\ pc'[p] # pc[p])
             => /\ farms' = farms
                /\ IF \E c \in WritableColumns : ValuesFor(req[p].body, c) # {}
                   THEN pc'[p] = "fu_write"
                   ELSE /\ pc'[p] = "idle"
                        /\ resp'[p].status = 400
                        /\ resp'[p].error = "No valid fields to update"]_vars

\* shara's farm carries the new size and nothing else changed, james's farm
\* is untouched
C15_Witness ==
    \E p \in Procs :
        /\ pc[p] = "idle" /\ resp[p].op = "farm_update" /\ resp[p].status = 200
        /\ resp[p].info.fid = 1
        /\ farms = { FarmRow(1, 1, "San Jose", "3.2", "6.5250"),
                     FarmRow(2, 2, "Poblacion", "1.8", "6.5180") }

(***************************************************************************)
(* Journey claims (checked under SpecJourney)                              *)
(***************************************************************************)
\* the listing route op answers 200 in slot p with this step
Listed(p, op) ==
    /\ resp'[p] # resp[p]
    /\ resp'[p].op = op
    /\ resp'[p].status = 200

\* users created by POST /api/auth/register with the farmer role
RegisteredFarmers == { u \in users : u.id \in RegisteredIds /\ u.role = "farmer" }

\* the entries of a notification list that tell of report id being verified
VerifiedEntries(rows, id) ==
    { n \in rows : n.title = "Report verified" /\ n.reference_id = ToString(id) }

\* C16: the lifecycle from registration to the verdict's notification. When
\* the admin's listing of pending reports is answered, it shows every pending
\* report submitted by a registered farmer; and when the farmer's notification
\* list is answered after the admin's one transition of the farmer's report
\* to verified (answered 'Status updated', its notification stored), the list
\* holds exactly one entry titled 'Report verified' that references the
\* report's id, and that entry is unread.
C16_Lifecycle ==
    /\ [][\A p \in Procs :
            (Listed(p, "admin_reports") /\ resp'[p].info.status = "pending")
            => \A r \in reports :
                 (r.status = "pending" /\ \E u \in RegisteredFarmers : u.id = r.user_id)
                 => r.id \in resp'[p].info.ids]_vars
    /\ [][\A p \in Procs :
            Listed(p, "notifications")
            => \A r \in reports :
                 ( /\ r.user_id = resp'[p].info.uid
                   /\ r.status = "verified"
                   /\ clock = 2
                   /\ resp[Desk].op = "status" /\ resp[Desk].status = 200
                   /\ resp[Desk].info.rid = r.id /\ resp[Desk].info.notify = "sent" )
                 => /\ Cardinality(VerifiedEntries(resp'[p].info.rows, r.id)) = 1
                    /\ \A n \in VerifiedEntries(resp'[p].info.rows, r.id) :
                          n.is_read = FALSE /\ n.user_id = r.user_id]_vars

\* juan registered, logged in and filed a pest report; the admin's pending
\* listing showed it, then the admin verified it, and juan's list holds the
\* one unread 'Report verified' entry
C16_Witness ==
    /\ resp[Serial].op = "notifications" /\ resp[Serial].status = 200
    /\ \E u \in RegisteredFarmers :
         /\ u.username = u_juan
         /\ resp[Serial].info.uid = u.id
         /\ \E r \in reports :
              /\ r.user_id = u.id /\ r.type = "pest" /\ r.photo_base64 = NoPhoto
              /\ r.status = "verified" /\ r.admin_notes = "checked"
              /\ clock = 2
              /\ resp[Desk].op = "status" /\ resp[Desk].info.rid = r.id
              /\ Cardinality(VerifiedEntries(resp[Serial].info.rows, r.id)) = 1

(***************************************************************************)
(* Account claims (checked under SpecRoles)                                *)
(***************************************************************************)
\* the users a farmer row references
BackingUsers(f) == { u \in users : u.id = f.user_id }

\* C17: in every state reached by registrations, admin farmer creations and
\* admin user updates, every farmer row references exactly one existing user
\* and that user's role is farmer.
C17_FarmerBackedByFarmerUser ==
    \A f \in farmers :
        /\ Cardinality(BackingUsers(f)) = 1
        /\ \A u \in BackingUsers(f) : u.role = "farmer"

(***************************************************************************)
(* Deletion claims (checked under SpecDelete)                              *)
(***************************************************************************)
\* every farmer references a user, every farm a farmer, every report a user
ReferentialIntegrity ==
    /\ \A f \in farmers : \E u \in users : u.id = f.user_id
    /\ \A fm \in farms : \E f \in farmers : f.id = fm.farmer_id
    /\ \A r \in reports : \E u \in users : u.id = r.user_id

\* in the next state nothing of user uid is left: no user, farmer, farm of
\* one of the user's farmers, or report
NothingLeftOf(uid) ==
    /\ ~\E u \in users' : u.id = uid
    /\ ~\E f \in farmers' : f.user_id = uid
    /\ \A f \in farmers : f.user_id = uid => ~\E fm \in farms' : fm.farmer_id = f.id
    /\ ~\E r \in reports' : r.user_id = uid

\* slot p answers a deletion with this step
DeletionAnswered(p, op, status) ==
    /\ resp'[p] # resp[p]
    /\ resp'[p].op = op
    /\ resp'[p].status = status

\* C18: deleting a user cascades. When DELETE /api/admin/users/:id or
\* DELETE /api/admin/farmers/:id answers 200, no user, farmer, farm or report
\* row of that user remains; when the farmer deletion answers 500, whatever
\* the step that failed, the user, the farmer and every farm and report row
\* are still there; and in every state every farmer references an existing
\* user, every farm an existing farmer and every report an existing user.
C18_DeletionCascades ==
    /\ []ReferentialIntegrity
    /\ [][\A p \in Procs :
            /\ DeletionAnswered(p, "delete_user", 200)
               => NothingLeftOf(resp'[p].info.uid)
            /\ DeletionAnswered(p, "delete_farmer", 200)
               => /\ NothingLeftOf(resp'[p].info.uid)
                  /\ ~\E f \in farmers' : f.id = resp'[p].info.fid
            /\ DeletionAnswered(p, "delete_farmer", 500)
               => /\ users' = users /\ farmers' = farmers /\ farms' = farms
                  /\ reports' = reports
                  /\ resp'[p].info.uid # NullUser
                     => /\ \E u \in users' : u.id = resp'[p].info.uid
                        /\ \E f \in farmers' : f.id = resp'[p].info.fid
            /\ (pc[p] \in DeleteFarmerPcs /\ pc[p] # "df_commit" /\ pc'[p] # pc[p])
               => (users' = users /\ farmers' = farmers /\ farms' = farms
                   /\ reports' = reports)]_vars

\* shara filed a report and the admin deleted her farmer record: her user,
\* farmer, farm and report rows are gone and james's are untouched
C18_Witness ==
    /\ resp[Desk].op = "delete_farmer" /\ resp[Desk].status = 200
    /\ resp[Desk].info.uid = SharaId
    /\ next_report_id > 1
    /\ resp[Serial].op = "submit" /\ resp[Serial].status = 201
    /\ users = {SeedAdmin, SeedJames}
    /\ farmers = {SeedJamesFarmer}
    /\ farms = {FarmRow(2, 2, "Poblacion", "1.8", "6.5180")}
    /\ reports = {}

(***************************************************************************)
(* Comment claims (checked under SpecComment)                              *)
(***************************************************************************)
\* the caller of the request in slot p submitted report id, or is an admin
OwnerOrAdmin(p) ==
    \/ req[p].user.role = "admin"
    \/ \E r \in reports : r.id = req[p].id /\ r.user_id = req[p].user.id

\* C19: a comment is appended to a report only when the caller is the
\* report's owner or an admin; a comment request by a farmer who did not
\* submit the report adds no comment row and no notification.
C19_CommentByOwnerOrAdmin ==
    [][\A p \in Procs :
         (pc[p] \in {"cm_handler", "cm_insert", "cm_select", "cm_notify"}
          /\ pc'[p] # pc[p] /\ ~OwnerOrAdmin(p))
         => (report_comments' = report_comments /\ notifications' = notifications)]_vars

(***************************************************************************)
(* History claims (checked under SpecHistory)                              *)
(***************************************************************************)
\* the ids of the caller's reports that pass the filter of a history answer
MatchingIds(info) ==
    { r.id : r \in { x \in reports :
        /\ x.user_id = info.uid
        /\ info.filter.status \in {NoChange, "all"} \/ x.status = info.filter.status
        /\ info.filter.type \in {NoChange, "all"} \/ x.type = info.filter.type } }

\* the elements of a sequence
Range(seq) == { seq[i] : i \in 1..Len(seq) }

\* C20: GET /reports/history returns only reports of the caller that match
\* the requested status and type; its total is the number of the caller's
\* matching reports and totalPages = ceil(total / limit); and a client that
\* has read pages 1..totalPages has seen every matching report exactly once.
C20_HistoryPagination ==
    [][\A p \in Procs :
         (resp'[p] # resp[p] /\ resp'[p].op = "history" /\ resp'[p].status = 200)
         => LET info == resp'[p].info
            IN  /\ Range(info.ids) \subseteq MatchingIds(info)
                /\ info.total = Cardinality(MatchingIds(info))
                /\ info.totalPages * info.limit >= info.total
                /\ (info.totalPages - 1) * info.limit < info.total
                /\ (info.fromFirst /\ info.page = info.totalPages)
                   => /\ Range(info.read) = MatchingIds(info)
                      /\ Len(info.read) = info.total]_vars

(***************************************************************************)
(* Notification claims (checked under SpecNotifications)                   *)
(***************************************************************************)
\* the caller's notifications that are marked read
ReadRowsOf(userId) == { n \in notifications : n.user_id = userId /\ n.is_read }

\* C21: a DELETE /api/notifications/clear-read that passes authentication
\* and is answered with success deletes exactly the caller's notifications
\* that are marked read, leaving the caller's unread notifications and every
\* other user's notifications unchanged.
C21_ClearReadDeletesCallersRead ==
    [][\A p \in Procs :
        ( /\ resp'[p] # resp[p]
          /\ resp'[p].op = "notification_delete"
          /\ resp'[p].status = 200
          /\ resp'[p].info.path = "clear-read" )
        => notifications' = notifications \ ReadRowsOf(resp'[p].info.uid)]_vars

(***************************************************************************)
(* Cache claims (checked under SpecCache)                                  *)
(***************************************************************************)
\* the cache holds an entry for the key whose TTL has not elapsed
Live(key) == cache[key] # NoEntry /\ cache[key].t >= clock

\* a GET of a reference list arrives in slot p and is answered from the cache
AnsweredFromCache(p) ==
    /\ pc[p] = "idle" /\ pc'[p] = "idle"
    /\ resp'[p] # resp[p]
    /\ resp'[p].op = "reference"

\* a GET of a reference list arrives in slot p and goes on to query the store
GoesToStore(p) == pc[p] = "idle" /\ pc'[p] = "ref_query"

\* C22 (as stated): once a GET has stored a result, the entry stays what it
\* is until its TTL elapses, whatever happens in between; a GET arriving
\* before then is answered with it, and a GET arriving after reads the store.
C22_InvalidatedOnlyByExpiry ==
    [][/\ \A key \in CacheKeys : Live(key) => cache'[key] = cache[key]
       /\ \A p \in Procs :
            /\ AnsweredFromCache(p) =>
                   /\ Live(resp'[p].info.key)
                   /\ resp'[p].info.value = cache[resp'[p].info.key].v
            /\ GoesToStore(p) => ~Live(req'[p].key)]_vars

\* C22 (amended): a GET that arrives while the entry is live is answered with
\* the entry and does not read the store, whatever admin writes happened
\* since it was stored; a GET that arrives when there is no live entry reads
\* the store; and a live entry is replaced only by the store step of a GET
\* that had missed (two GETs that miss together both store, the later
\* overwriting the earlier), never by an admin write.
C22_LiveEntryAnswersUntilExpiry ==
    [][/\ \A key \in CacheKeys :
            (Live(key) /\ cache'[key] # cache[key]) =>
                \E p \in Procs :
                    pc[p] = "ref_store" /\ req[p].key = key /\ pc'[p] = "idle"
       /\ \A p \in Procs :
            /\ AnsweredFromCache(p) =>
                   /\ Live(resp'[p].info.key)
                   /\ resp'[p].info.value = cache[resp'[p].info.key].v
                   /\ ~resp'[p].info.read
                   /\ UNCHANGED cache
            /\ GoesToStore(p) => ~Live(req'[p].key)
            /\ (resp'[p] # resp[p] /\ resp'[p].op = "reference" /\ resp'[p].info.read) =>
                   pc[p] = "ref_store"]_vars

\* a GET was answered from the cache with rows the table no longer holds,
\* and time has since passed the entry's expiry
C22_Witness ==
    \E p \in Procs :
        /\ resp[p].op = "reference"
        /\ resp[p].info.key = "barangays"
        /\ ~resp[p].info.read
        /\ ~resp[p].info.value.fallback
        /\ resp[p].info.value.rows # barangays
        /\ cache["barangays"] # NoEntry
        /\ ~Live("barangays")

(***************************************************************************)
(* Login identity claims (checked under SpecIdentity)                      *)
(***************************************************************************)
\* C23: for every active user U and each of U's username, email and RSBSA
\* id, a login with that identifier and U's password succeeds and the token
\* is issued for U, also when the same string is an identifier of another
\* kind for another user.
C23_LoginResolvesOneUser ==
    [][\A p \in Procs :
          (LoginEnds(p) /\ req[p].variant = "server")
          => \A u \in users :
                 ( /\ u.is_active
                   /\ Matches(u, req[p].identifier)
                   /\ Compare(req[p].password, u.password_hash) )
                 => /\ resp'[p].status = 200
                    /\ resp'[p].info.uid = u.id
                    /\ Claims(u) \in tokens']_vars

(***************************************************************************)
(* Status transition claims (checked under SpecVerdict)                    *)
(***************************************************************************)
\* the UPDATE of slot p's status request is carried out
TransitionAccepted(p) == pc[p] = "st_update" /\ pc'[p] = "st_select"

\* notes were supplied with the request
NotesSupplied(p) == req[p].adminNotes # NoChange /\ req[p].adminNotes # ""

\* C24: the UPDATE of an accepted status transition sets the report's status
\* to the target, admin_notes to the supplied notes (NULL when none are
\* supplied), verified_by to the acting admin's id and verified_at to the time
\* of the update, for every allow-listed target, and it changes no other
\* report.
C24_TransitionWritesReport ==
    [][\A p \in Procs :
          TransitionAccepted(p) =>
              /\ req[p].status \in StatusAllowList
              /\ { r.id : r \in reports' } = { r.id : r \in reports }
              /\ \A r \in reports' :
                    IF r.id = req[p].id
                    THEN /\ r.status = req[p].status
                         /\ r.admin_notes =
                                IF NotesSupplied(p) THEN req[p].adminNotes ELSE NullNotes
                         /\ r.verified_by = req[p].user.id
                         /\ r.verified_at = clock
                         /\ r.verified_at # NullTime
                         /\ \E o \in reports :
                                /\ o.id = r.id /\ o.user_id = r.user_id /\ o.type = r.type
                                /\ o.photo_base64 = r.photo_base64
                    ELSE r \in reports]_vars

\* report 1 was changed by two transitions, the later one, without notes,
\* leaving admin_notes NULL, while report 2 is still as submitted
C24_Witness ==
    /\ \E p \in Procs :
          /\ pc[p] = "st_select"
          /\ req[p].id = 1 /\ req[p].status = "rejected" /\ req[p].adminNotes = NoChange
    /\ clock = MaxStatusUpdates + 1
    /\ \E r \in reports :
          /\ r.id = 1 /\ r.status = "rejected" /\ r.admin_notes = NullNotes
          /\ r.verified_by = AdminId /\ r.verified_at = MaxStatusUpdates
    /\ NewReport(2, SharaId, [type |-> "flood", photoBase64 |-> NoPhoto]) \in reports

\* the report of slot p's request already has the requested status and notes
Reapplied(p) ==
    \E r \in reports :
        /\ r.id = req[p].id
        /\ r.status = req[p].status
        /\ r.admin_notes = IF NotesSupplied(p) THEN req[p].adminNotes ELSE NullNotes

\* the reporter's notifications of one status of one report
StatusNotices(rows, userId, status, id) ==
    { n \in rows :
        /\ n.user_id = userId /\ n.type = "status_change"
        /\ n.title = "Report " \o status /\ n.reference_id = ToString(id) }

\* C25: applying a status and notes the report already has leaves every
\* report's status and notes as they were, and each application whose
\* notification insert is carried out adds one more notification for the
\* reporter, however many notifications of that status the reporter already
\* holds (duplicates are not suppressed).
C25_RepeatKeepsReportAddsNotification ==
    [][\A p \in Procs :
          /\ (TransitionAccepted(p) /\ Reapplied(p)) =>
                \A r \in reports : \E t \in reports' :
                    /\ t.id = r.id /\ t.status = r.status /\ t.admin_notes = r.admin_notes
          /\ (StatusAnswered(p) /\ resp'[p].info.notify = "sent") =>
                Cardinality(StatusNotices(notifications', req[p].owner, req[p].status,
                                          req[p].id))
                = Cardinality(StatusNotices(notifications, req[p].owner, req[p].status,
                                            req[p].id)) + 1]_vars

\* report 1 was verified with the same notes twice: it is verified with those
\* notes, and the reporter holds two notifications of it
C25_Witness ==
    /\ \A p \in Procs : pc[p] = "idle"
    /\ \E r \in reports :
          /\ r.id = 1 /\ r.status = "verified" /\ r.admin_notes = "checked"
          /\ r.verified_at = MaxStatusUpdates
    /\ Cardinality(StatusNotices(notifications, SharaId, "verified", 1)) = MaxStatusUpdates

\* the notification insert of slot p's comment request ends without its rows
NotificationInsertFailed(p) ==
    /\ pc[p] = "cm_notify" /\ pc'[p] = "idle"
    /\ CommentNotifications(req[p].user.role = "admin", req[p].owner, req[p].id) # {}
    /\ notifications' = notifications

\* C26: when the notification insert of POST /api/reports/:id/comments
\* fails, the comment row stays persisted and the request is still answered
\* 201.
C26_CommentSurvivesNotificationFailure ==
    [][\A p \in Procs :
          NotificationInsertFailed(p) =>
              /\ report_comments' = report_comments
              /\ \E i \in 1..Len(report_comments) :
                    /\ report_comments[i].report_id = req[p].id
                    /\ report_comments[i].user_id = req[p].user.id
              /\ resp'[p].status = 201]_vars

(***************************************************************************)
(* Token claims (checked under SpecToken)                                  *)
(***************************************************************************)
\* a token with the admin role claim was issued for the user id
HoldsAdminToken(uid) == \E tok \in tokens : tok.id = uid /\ tok.role = "admin"

\* C27: the decisions of authenticateToken and requireAdmin for an issued
\* token depend on the token alone: no step, in particular no deactivation,
\* demotion or deletion of the token's user, changes them, and an admin
\* route answers 403 exactly to callers without an admin-role token,
\* whatever the users table says about them.
C27_TokenDecidesAlone ==
    [][/\ \A tok \in tokens :
            /\ AuthenticateToken(tok)' = AuthenticateToken(tok)
            /\ RequireAdmin(tok)' = RequireAdmin(tok)
       /\ \A p \in Procs :
            /\ ( /\ resp'[p] # resp[p]
                 /\ resp'[p].op \in {"farmer_status", "patch_user"} )
               => (resp'[p].status = 403 <=> ~HoldsAdminToken(resp'[p].info.uid))
            /\ ( /\ resp'[p] # resp[p]
                 /\ resp'[p].op = "notifications" )
               => (resp'[p].status \in {401, 403} <=> resp'[p].info.uid = NullUser)]_vars

\* the token of a deleted farmer was let through authenticateToken, and the
\* token of the admin, by then demoted or deactivated in the users table or
\* deleted from it, was let through requireAdmin
C27_Witness ==
    /\ resp[Serial].op = "notifications" /\ resp[Serial].status = 200
    /\ ~\E u \in users : u.id = resp[Serial].info.uid
    /\ resp[Desk].op = "farmer_status" /\ resp[Desk].status = 200
    /\ resp[Desk].info.uid = AdminId
    /\ ~\E u \in users : u.id = AdminId /\ u.role = "admin"

(***************************************************************************)
(* Add-farm claims (checked under SpecAddFarm)                             *)
(***************************************************************************)
\* slot p's add-farm request is answered in this step
AddFarmAnswered(p) == resp'[p] # resp[p] /\ resp'[p].op = "add_farm"

\* C28: for both add-farm routes, a request answered with an error inserted
\* no farm row, and a request that inserted a farm row is answered 201.
C28_AddFarmErrorMeansNoRow ==
    [][\A p \in Procs :
          /\ (AddFarmAnswered(p) /\ resp'[p].status # 201) => farms' = farms
          /\ (farms' # farms /\ pc[p] = "nf_insert" /\ pc'[p] = "idle")
             => resp'[p].status = 201]_vars

(***************************************************************************)
(* Admin farmer creation claims (checked under SpecRoles)                  *)
(***************************************************************************)
\* slot p's POST /api/admin/farmers is answered with an error in this step,
\* after its pre-check passed and its user id was drawn
CreationRefused(p) ==
    /\ pc[p] \in {"af_user", "af_farmer", "af_farm"}
    /\ pc'[p] = "idle"
    /\ resp'[p].status # 201

\* C29: admin farmer creation is all-or-nothing: when it answers with an
\* error, no user row, farmer row or farm row created by that request remains.
C29_CreationAllOrNothing ==
    [][\A p \in Procs :
          CreationRefused(p) =>
              /\ ~\E u \in users' : u.id = req[p].userId
              /\ ~\E f \in farmers' : f.user_id = req[p].userId
              /\ ~\E f \in farmers', g \in farms' :
                     f.user_id = req[p].userId /\ g.farmer_id = f.id]_vars

(***************************************************************************)
(* Concurrent status transitions (checked under SpecRace)                  *)
(***************************************************************************)
\* the status_change notifications of the raced report
RaceNotices ==
    { n \in notifications :
        n.type = "status_change" /\ n.reference_id = ToString(RacedReport) }

\* the most recently inserted of them
LatestNotice == CHOOSE n \in RaceNotices : \A m \in RaceNotices : m.id <= n.id

\* every UPDATE carried out so far was followed by its notification insert
AllTransitionsNotified == Cardinality(RaceNotices) = clock - 1

\* C30: when two admins change the status of the same report concurrently,
\* once both requests are done and every update has inserted its notification,
\* the most recently inserted status_change notification of the report names
\* the status the report ends with.
C30_LatestNoticeNamesFinalStatus ==
    (Quiet /\ RaceNotices # {} /\ AllTransitionsNotified) =>
        \A r \in reports :
            r.id = RacedReport => LatestNotice.title = "Report " \o r.status

====
